---------------------------- MODULE Spec2Model ----------------------------
(***************************************************************************)
(* A model of the train-ticket load tools:                                 *)
(*   - StressTestResult (src/src/stress.py): the lock-protected record    *)
(*     calls add_success / add_failure and the lock-free summary();        *)
(*   - run_stress_test and main of src/src/stress.py: login, the pre-filled*)
(*     task queue, the polling worker threads, the stop event, the joins;  *)
(*   - TimedTaskRunner and main of src/src/timed_task.py;                  *)
(*   - the ws handler of src/src/web/app.py and its thread pool;           *)
(*   - main of src/src/main.py;                                            *)
(*   - ScenarioRunner's weighted selection (src/src/scenarios/runners.py)  *)
(*     and random_from_weighted (src/src/utils/helpers.py);                *)
(*   - the statistics of StressTestResult.summary().                       *)
(* The specifications share the variables: RecSpec (the aggregator at      *)
(* bytecode granularity), Spec (the four programs, one per behaviour),     *)
(* FairSpec (the stress harness with the scheduler's fairness), SelSpec    *)
(* (the weighted selection) and StatSpec (the statistics).                 *)
(***************************************************************************)
EXTENDS Integers, Sequences, FiniteSets, TLC

\* ------------------------------------------------------------------ bounds
MaxRecorders == 2      \* K: threads calling record concurrently (RecSpec)
MaxCalls == 2          \* M: record calls per thread (RecSpec)
MaxCount == 3          \* --count is drawn from 0..MaxCount
MaxConc == 2           \* --concurrent is drawn from 0..MaxConc
MaxNow == 11           \* seconds the clock of the timed runner counts
MaxWebCount == 2       \* the dashboard's total_count is drawn from 0..MaxWebCount
MaxWebConc == 2        \* the dashboard's concurrency is drawn from 0..MaxWebConc
MaxEntries == 3        \* add_scenario calls on one ScenarioRunner
MaxWeight == 2         \* add_scenario weights are drawn from 0..MaxWeight
MaxSamples == 25       \* latency samples of a result read by summary()
MaxFails == 1          \* failures of a result read by summary()
MaxElapsed == 1        \* total_time() results, in seconds
MaxOtherExecs == 1     \* executions of a second dashboard connection's run
MaxRunCount == 2       \* run_random's count is drawn from 0..MaxRunCount

Recorders == 1..MaxRecorders
Workers == 1..MaxConc
\* The smallest --count with a multiple of ten before its last completion.
ProgressCount == 11
Units == 0..((IF MaxCount > ProgressCount THEN MaxCount ELSE ProgressCount) - 1)
\* The elapsed times worker() measures, in seconds. The claims checked here are
\* about counts, lengths and orderings, which one value decides.
Latencies == {1}
WebTasks == 1..MaxWebCount
\* The error strings worker() builds: f"{type(e).__name__}: {str(e)}".
ErrorStrings == {"ConnectionError: refused"}

VARIABLES
    \* ---- StressTestResult (stress.py 72-80)
    success_count, fail_count, response_times, errors, lock, end_time,
    \* ---- the callers of RecSpec: K recorder threads and one summary reader
    recK, recM, rpc, rkind, rarg, rtmp, rdone, spc, sacc, summ,
    \* ---- which program this behaviour runs: "record", "stress", "timed",
    \* "web", "main", "select", "stats", "login"
    program,
    \* ---- stress.py main / run_stress_test: the arguments and the main thread
    count, concurrent_num, error_threshold, mpc, exit_status, login_state, threads, join_idx,
    caught, interrupted, er_total,
    \* ---- history: the login() and refresh_token() calls made on the Query of
    \* the load run
    auth_calls,
    \* ---- the task queue, the stop event, the worker threads
    task_queue, unfinished_tasks, stop_event, wpc, cur,
    \* ---- history of the run: per unit the dequeues, task_done calls and
    \* records; the scenario outcomes; the progress reports logged
    deq, acks, recs, n_ok, n_raise, progress,
    \* ---- TimedTaskRunner: start()'s position, the runner's fields, the
    \* registered schedule jobs, the scenarios run, the health file's scenario
    tpc, running, current_scenario_index, jobs, t_exec, health,
    \* ---- the clock, the runner's refresh fields, when each job is next due,
    \* and history: run_next_scenario calls, refreshes that did not succeed,
    \* why start() ended
    now, last_token_refresh, token_refresh_interval, next_run, t_calls,
    refresh_failures, stop_cause,
    \* ---- history: the latest run_next_scenario() that reached its scenario,
    \* the one before it, and when token_refresh_scheduler() last ran; the
    \* stop() calls made
    last_tick, stop_calls,
    \* ---- web/app.py: the ws handler, its configuration, the pool's
    \* execute_scenario calls, test_results["execution"], the counter
    hpc, ws_connected, web_count, web_conc, web_catalog, submitted, looped,
    tstate, ttmp, exec_total, exec_success, exec_failure, counter, web_invoked,
    \* ---- message_queue (the number of messages on it), whether the
    \* message_sender thread is in its loop, the messages it took and did not
    \* deliver
    message_queue, sender_alive, dropped,
    \* ---- history of the messages: how many were ever put on message_queue
    \* (the n-th put is message n, and the queue holds the latest
    \* message_queue of them), the latest message the observer was sent, the
    \* "complete" events put (how many, and the number of the latest), the
    \* `current` values of the progress events in the order they were put,
    \* the execution counts the "complete" event carried
    enqueued, delivered, completes, complete_at,
    progress_events, complete_counts,
    \* ---- a second ws connection running at the same time: its resets of
    \* test_results and its executions
    other_resets, other_execs,
    \* ---- ScenarioRunner (scenarios/runners.py): the scenario list, the weight
    \* dict, and the latest _select_random_scenario / random_from_weighted
    \* call (its catalog, its draw, what it returned)
    scenarios, scenario_weights, last_select, last_weighted,
    \* ---- the latest run_random call: its count, the size of the scenario
    \* list, the iterations whose scenario raised, what it invoked and
    \* returned, the exception that left it
    last_run,
    \* ---- StressTestResult read sequentially: total_time() and the latest
    \* summary() dict
    total_time, summary, api_response,
    \* ---- src/main.py main: its position
    cpc,
    \* ---- a Query (core/queries.py): uid, token and the session's
    \* Authorization and Cookie headers; the latest login() call
    query, last_login

resVars == <<success_count, fail_count, response_times, errors, lock, end_time>>
recVars == <<recK, recM, rpc, rkind, rarg, rtmp, rdone, spc, sacc, summ>>
argVars == <<count, concurrent_num, error_threshold>>
mainVars == <<mpc, exit_status, login_state, threads, join_idx, caught,
              interrupted, er_total, auth_calls>>
queueVars == <<task_queue, unfinished_tasks, stop_event>>
workerVars == <<wpc, cur>>
histVars == <<deq, acks, recs, n_ok, n_raise, progress>>
stressVars == <<argVars, mainVars, queueVars, workerVars, histVars>>
timedVars == <<tpc, running, current_scenario_index, jobs, t_exec, health,
               now, last_token_refresh, token_refresh_interval, next_run,
               t_calls, refresh_failures, stop_cause, last_tick, stop_calls>>
webVars == <<hpc, ws_connected, web_count, web_conc, web_catalog, submitted,
             looped, tstate, ttmp, exec_total, exec_success, exec_failure,
             counter, web_invoked, message_queue, sender_alive, dropped,
             enqueued, delivered, completes, complete_at,
             progress_events, complete_counts, other_resets, other_execs>>
selVars == <<scenarios, scenario_weights, last_select, last_weighted,
             last_run>>
statVars == <<total_time, summary, api_response>>
cliVars == <<cpc>>
loginVars == <<query, last_login>>
otherVars == <<selVars, statVars, cliVars, loginVars>>
nonRecVars == <<program, stressVars, timedVars, webVars, otherVars>>
vars == <<resVars, recVars, program, stressVars, timedVars, webVars, otherVars>>

\* ------------------------------------- the state of a program that is not run
NoSummary == [total_requests |-> -1, success_count |-> -1, fail_count |-> -1,
              sample_len |-> -1, latency |-> <<>>]

\* The stress program's variables while another program runs.
StressIdle ==
    /\ count = 0 /\ concurrent_num = 0 /\ error_threshold = -1
    /\ mpc = "none" /\ exit_status = -1 /\ login_state = "none"
    /\ auth_calls = 0
    /\ threads = 0 /\ join_idx = 0 /\ caught = FALSE /\ interrupted = FALSE
    /\ er_total = 0
    /\ task_queue = <<>> /\ unfinished_tasks = 0 /\ stop_event = FALSE
    /\ wpc = [w \in Workers |-> "unstarted"]
    /\ cur = [w \in Workers |-> -1]
    /\ deq = [u \in Units |-> 0]
    /\ acks = [u \in Units |-> 0]
    /\ recs = [u \in Units |-> 0]
    /\ n_ok = 0 /\ n_raise = 0 /\ progress = {}

\* The RecSpec callers while another program runs.
RecIdle ==
    /\ recK = 0 /\ recM = 0
    /\ rpc = [t \in Recorders |-> "idle"]
    /\ rkind = [t \in Recorders |-> "none"]
    /\ rarg = [t \in Recorders |-> 0]
    /\ rtmp = [t \in Recorders |-> 0]
    /\ rdone = [t \in Recorders |-> 0]
    /\ spc = "none"
    /\ sacc = NoSummary
    /\ summ = NoSummary

\* No job is registered with the scheduler.
EmptySchedule == [job \in {} |-> 0]

\* The health file before any write.
NoHealth == [execution |-> -1, scenario |-> -1, refresh |-> -1]

\* No run_next_scenario() has reached its scenario yet.
NoTick == [made |-> FALSE, scenario |-> -1, raised |-> FALSE,
           health_ok |-> FALSE, start |-> -1, finish |-> -1,
           prev_start |-> -1, prev_finish |-> -1, first |-> FALSE,
           token_at |-> -1, health_failed |-> FALSE, failed |-> FALSE]

InitTimedRunner ==
    /\ running = FALSE
    /\ current_scenario_index = 0
    /\ jobs = {}
    /\ t_exec = 0
    /\ health = NoHealth
    /\ last_tick = NoTick
    /\ stop_calls = 0
    /\ now = 0
    /\ last_token_refresh = 0
    /\ next_run = EmptySchedule
    /\ t_calls = 0
    /\ refresh_failures = 0
    /\ stop_cause = "none"

TimedIdle ==
    tpc = "none" /\ InitTimedRunner /\ token_refresh_interval = 0

\* No "complete" event was put yet.
NoCounts == [total |-> -1, success |-> -1, failure |-> -1]

InitWebRun ==
    /\ web_count = 0 /\ web_conc = 0 /\ web_catalog = 0
    /\ submitted = 0 /\ looped = 0
    /\ tstate = [i \in WebTasks |-> "none"]
    /\ ttmp = [i \in WebTasks |-> 0]
    /\ exec_total = 0 /\ exec_success = 0 /\ exec_failure = 0
    /\ counter = 0 /\ web_invoked = 0
    /\ message_queue = 0 /\ sender_alive = TRUE /\ dropped = 0
    /\ enqueued = 0 /\ delivered = 0
    /\ completes = 0 /\ complete_at = 0
    /\ progress_events = <<>>
    /\ complete_counts = NoCounts
    /\ other_resets = 0 /\ other_execs = 0

WebIdle == hpc = "none" /\ ws_connected = FALSE /\ InitWebRun

\* No _select_random_scenario / random_from_weighted call was made yet.
NoCall == [made |-> FALSE, scenarios |-> <<>>, weights |-> <<>>, r |-> 0,
           result |-> "none"]

\* An empty dict.
EmptyDict == [k \in {} |-> 0]

\* No run_random call was made yet.
NoRun == [made |-> FALSE]

InitRunner ==
    /\ scenarios = <<>>
    /\ scenario_weights = EmptyDict
    /\ last_select = NoCall
    /\ last_weighted = NoCall
    /\ last_run = NoRun

SelIdle == InitRunner

\* A number n, as the values of summary() are represented: the root-th root
\* of num / den, or the exception err that computing it raised.
Num(n) == [err |-> "", num |-> n, den |-> 1, root |-> 1]

\* No summary() call was made yet.
NoStats == [made |-> FALSE]

\* test_results["api_response"] as ws resets it: every statistic 0.
ResetApiResponse ==
    [updated |-> FALSE, min_time |-> Num(0), max_time |-> Num(0),
     avg_time |-> Num(0), sum_time |-> Num(0), p90_time |-> Num(0),
     p95_time |-> Num(0), p99_time |-> Num(0)]

StatIdle ==
    total_time = 0 /\ summary = NoStats /\ api_response = ResetApiResponse

CliIdle == cpc = "none"

\* Query.__init__: uid and token are empty strings, the session has no
\* Authorization and no Cookie header.
NewQuery == [uid |-> "", token |-> "", Authorization |-> "none",
             Cookie |-> "none"]

\* No login() call was made yet.
NoLogin == [made |-> FALSE]

LoginIdle == query = NewQuery /\ last_login = NoLogin

OtherIdle == SelIdle /\ StatIdle /\ CliIdle /\ LoginIdle

\* ------------------------------------------------------- StressTestResult
\* response_time * 1000: seconds to milliseconds.
ToMillis(response_time) == response_time * 1000

\* total_count(): success_count + fail_count.
total_count == success_count + fail_count

InitResult ==
    /\ success_count = 0
    /\ fail_count = 0
    /\ response_times = <<>>
    /\ errors = <<>>
    /\ lock = 0
    /\ end_time = FALSE

\* add_success under the lock, as one step (what `with self.lock` makes of it).
AddSuccess(response_time) ==
    /\ success_count' = success_count + 1
    /\ response_times' = Append(response_times, ToMillis(response_time))
    /\ UNCHANGED <<fail_count, errors>>

\* add_failure under the lock, as one step.
AddFailure(error) ==
    /\ fail_count' = fail_count + 1
    /\ errors' = Append(errors, error)
    /\ UNCHANGED <<success_count, response_times>>

\* ------------------------------- stress.py: StressTestResult's statistics
\* The exception a Python operation raised, in place of its value.
Raised(exception) == [err |-> exception, num |-> 0, den |-> 1, root |-> 1]

\* a / b
Div(a, b) == IF b = 0 THEN Raised("ZeroDivisionError")
             ELSE [err |-> "", num |-> a, den |-> b, root |-> 1]

\* seq[index], the index counted from 0 and not negative.
Item(seq, index) == IF index \in 0..(Len(seq) - 1) THEN Num(seq[index + 1])
                    ELSE Raised("IndexError")

\* sum(seq)
RECURSIVE SumSeq(_)
SumSeq(seq) == IF seq = <<>> THEN 0 ELSE seq[1] + SumSeq(Tail(seq))

RECURSIVE SumSquares(_)
SumSquares(seq) ==
    IF seq = <<>> THEN 0 ELSE seq[1] * seq[1] + SumSquares(Tail(seq))

\* min(seq), max(seq)
MinOf(seq) ==
    IF seq = <<>> THEN Raised("ValueError")
    ELSE Num(CHOOSE x \in {seq[i] : i \in 1..Len(seq)} :
                \A i \in 1..Len(seq) : x <= seq[i])

MaxOf(seq) ==
    IF seq = <<>> THEN Raised("ValueError")
    ELSE Num(CHOOSE x \in {seq[i] : i \in 1..Len(seq)} :
                \A i \in 1..Len(seq) : x >= seq[i])

RECURSIVE Insert(_, _)
Insert(x, seq) ==
    IF seq = <<>> THEN <<x>>
    ELSE IF x <= seq[1] THEN <<x>> \o seq
    ELSE <<seq[1]>> \o Insert(x, Tail(seq))

Unsorted_sorted(seq) == seq

RECURSIVE InsertDescending(_, _)
InsertDescending(x, seq) ==
    IF seq = <<>> THEN <<x>>
    ELSE IF x >= seq[1] THEN <<x>> \o seq
    ELSE <<seq[1]>> \o InsertDescending(x, Tail(seq))

RECURSIVE Descending_sorted(_)
Descending_sorted(seq) ==
    IF seq = <<>> THEN <<>>
    ELSE InsertDescending(seq[1], Descending_sorted(Tail(seq)))

\* sorted(seq): the elements of seq in ascending order.
RECURSIVE sorted(_)
sorted(seq) == IF seq = <<>> THEN <<>> ELSE Insert(seq[1], sorted(Tail(seq)))

\* int(len(sorted_times) * 0.9), * 0.95, * 0.99, the factor given in percent.
\* The double product truncates to floor(len * percent / 100) for every
\* length up to 200000 (computed for each of the three factors).
PercentileIndex(length, percent) == (length * percent) \div 100

\* statistics.stdev(data): the square root of the sample variance
\* (n * sum(x^2) - sum(x)^2) / (n * (n - 1)); StatisticsError below two points.
stdev(data) ==
    IF Len(data) < 2 THEN Raised("StatisticsError")
    ELSE [err |-> "",
          num |-> Len(data) * SumSquares(data) - SumSeq(data) * SumSeq(data),
          den |-> Len(data) * (Len(data) - 1), root |-> 2]

Unguarded_error_rate(fails, total) == Div(fails, total)

\* error_rate(): 0 when total == 0, fail_count / total otherwise.
error_rate(fails, total) == IF total = 0 THEN Num(0) ELSE Div(fails, total)

\* qps(): 0 when total_time == 0, total_count() / total_time otherwise.
qps(total, elapsed) == IF elapsed = 0 THEN Num(0) ELSE Div(total, elapsed)

avg_response_time(times) ==
    IF times = <<>> THEN Num(0) ELSE Div(SumSeq(times), Len(times))

min_response_time(times) == IF times = <<>> THEN Num(0) ELSE MinOf(times)

max_response_time(times) == IF times = <<>> THEN Num(0) ELSE MaxOf(times)

\* p90_response_time, p95_response_time, p99_response_time.
percentile_response_time(times, percent) ==
    IF times = <<>> THEN Num(0)
    ELSE Item(sorted(times), PercentileIndex(Len(times), percent))

std_dev_response_time(times) ==
    IF Len(times) <= 1 THEN Num(0) ELSE stdev(times)

\* self.errors[:10]
FirstTen(seq) == SubSeq(seq, 1, IF Len(seq) < 10 THEN Len(seq) ELSE 10)

\* The latency statistics of summary(), each computed from response_times.
LatencyStats(times) ==
    [avg |-> avg_response_time(times),
     min |-> min_response_time(times),
     max |-> max_response_time(times),
     p90 |-> percentile_response_time(times, 90),
     p95 |-> percentile_response_time(times, 95),
     p99 |-> percentile_response_time(times, 99),
     std_dev |-> std_dev_response_time(times)]

\* ------------------------------------------------ RecSpec: record, summary
NoLock_CanAcquire(t) == TRUE

\* `with self.lock:` enters only when no thread holds the lock.
CanAcquire(t) == lock = 0

InitRec ==
    /\ InitResult
    /\ StressIdle /\ TimedIdle /\ WebIdle /\ OtherIdle
    /\ program = "record"
    /\ recK \in 1..MaxRecorders
    /\ recM \in 1..MaxCalls
    /\ rpc = [t \in Recorders |-> "idle"]
    /\ rkind = [t \in Recorders |-> "none"]
    /\ rarg = [t \in Recorders |-> 0]
    /\ rtmp = [t \in Recorders |-> 0]
    /\ rdone = [t \in Recorders |-> 0]
    /\ spc = "idle"
    /\ sacc = NoSummary
    /\ summ = NoSummary

\* A thread calls add_success(response_time) and enters the critical section.
RecEnterSuccess(t) ==
    /\ t <= recK /\ rpc[t] = "idle" /\ rdone[t] < recM
    /\ CanAcquire(t)
    /\ \E lat \in Latencies : rarg' = [rarg EXCEPT ![t] = lat]
    /\ lock' = t
    /\ rkind' = [rkind EXCEPT ![t] = "success"]
    /\ rpc' = [rpc EXCEPT ![t] = "load"]
    /\ UNCHANGED <<success_count, fail_count, response_times, errors, end_time,
                   recK, recM, rtmp, rdone, spc, sacc, summ, nonRecVars>>

\* A thread calls add_failure(error) and enters the critical section.
RecEnterFailure(t) ==
    /\ t <= recK /\ rpc[t] = "idle" /\ rdone[t] < recM
    /\ CanAcquire(t)
    /\ lock' = t
    /\ rkind' = [rkind EXCEPT ![t] = "failure"]
    /\ rpc' = [rpc EXCEPT ![t] = "load"]
    /\ UNCHANGED <<success_count, fail_count, response_times, errors, end_time,
                   recK, recM, rarg, rtmp, rdone, spc, sacc, summ, nonRecVars>>

\* `self.success_count += 1` / `self.fail_count += 1`: the load of the counter.
RecLoad(t) ==
    /\ rpc[t] = "load"
    /\ rtmp' = [rtmp EXCEPT ![t] = IF rkind[t] = "success" THEN success_count
                                   ELSE fail_count]
    /\ rpc' = [rpc EXCEPT ![t] = "store"]
    /\ UNCHANGED <<resVars, recK, recM, rkind, rarg, rdone, spc, sacc, summ, nonRecVars>>

\* ... and the store of the incremented value.
RecStore(t) ==
    /\ rpc[t] = "store"
    /\ IF rkind[t] = "success"
          THEN success_count' = rtmp[t] + 1 /\ UNCHANGED fail_count
          ELSE fail_count' = rtmp[t] + 1 /\ UNCHANGED success_count
    /\ rpc' = [rpc EXCEPT ![t] = "append"]
    /\ UNCHANGED <<response_times, errors, lock, end_time,
                   recK, recM, rkind, rarg, rtmp, rdone, spc, sacc, summ, nonRecVars>>

Every_AppendsSample(kind) == TRUE

\* Which record call appends to response_times: add_success (92); add_failure
\* appends to errors (103).
AppendsSample(kind) == kind = "success"

\* The append to response_times / errors, the release of the lock, the return.
RecAppendRelease(t) ==
    /\ rpc[t] = "append"
    /\ IF AppendsSample(rkind[t])
          THEN /\ response_times' = Append(response_times, ToMillis(rarg[t]))
               /\ UNCHANGED errors
          ELSE /\ errors' = Append(errors, CHOOSE e \in ErrorStrings : TRUE)
               /\ UNCHANGED response_times
    /\ lock' = IF lock = t THEN 0 ELSE lock
    /\ rdone' = [rdone EXCEPT ![t] = @ + 1]
    /\ rpc' = [rpc EXCEPT ![t] = "idle"]
    \* the call's frame (its argument and the loaded counter) is gone
    /\ rkind' = [rkind EXCEPT ![t] = "none"]
    /\ rarg' = [rarg EXCEPT ![t] = 0]
    /\ rtmp' = [rtmp EXCEPT ![t] = 0]
    /\ UNCHANGED <<success_count, fail_count, end_time,
                   recK, recM, spc, sacc, summ, nonRecVars>>

\* summary() takes no lock. "total_requests": self.total_count() loads
\* success_count, then fail_count.
SummaryLoadTotal1 ==
    /\ program = "record" /\ spc = "idle"
    /\ sacc' = [NoSummary EXCEPT !.total_requests = success_count]
    /\ spc' = "total2"
    /\ UNCHANGED <<resVars, recK, recM, rpc, rkind, rarg, rtmp, rdone, summ, nonRecVars>>

SummaryLoadTotal2 ==
    /\ spc = "total2"
    /\ sacc' = [sacc EXCEPT !.total_requests = @ + fail_count]
    /\ spc' = "success"
    /\ UNCHANGED <<resVars, recK, recM, rpc, rkind, rarg, rtmp, rdone, summ, nonRecVars>>

\* "success_count": self.success_count
SummaryLoadSuccess ==
    /\ spc = "success"
    /\ sacc' = [sacc EXCEPT !.success_count = success_count]
    /\ spc' = "fail"
    /\ UNCHANGED <<resVars, recK, recM, rpc, rkind, rarg, rtmp, rdone, summ, nonRecVars>>

\* "fail_count": self.fail_count
SummaryLoadFail ==
    /\ spc = "fail"
    /\ sacc' = [sacc EXCEPT !.fail_count = fail_count]
    /\ spc' = "times"
    /\ UNCHANGED <<resVars, recK, recM, rpc, rkind, rarg, rtmp, rdone, summ, nonRecVars>>

\* The latency fields read self.response_times; the dict is built and returned.
SummaryLoadTimesReturn ==
    /\ spc = "times"
    /\ summ' = [sacc EXCEPT !.sample_len = Len(response_times),
                             !.latency = LatencyStats(response_times)]
    /\ sacc' = NoSummary
    /\ spc' = "returned"
    /\ UNCHANGED <<resVars, recK, recM, rpc, rkind, rarg, rtmp, rdone, nonRecVars>>

NextRec ==
    \/ \E t \in Recorders : RecEnterSuccess(t)
    \/ \E t \in Recorders : RecEnterFailure(t)
    \/ \E t \in Recorders : RecLoad(t)
    \/ \E t \in Recorders : RecStore(t)
    \/ \E t \in Recorders : RecAppendRelease(t)
    \/ SummaryLoadTotal1
    \/ SummaryLoadTotal2
    \/ SummaryLoadSuccess
    \/ SummaryLoadFail
    \/ SummaryLoadTimesReturn

RecSpec == InitRec /\ [][NextRec]_vars

\* ----------------------------------------- stress.py: main, run_stress_test
\* main() is followed from check_config() on; the STRESS_* defaults that
\* stress.py imports from utils/config.py only feed parse_args(), whose results
\* are the arguments drawn here (utils/config.py as it stands defines none of
\* them, so that importing stress.py with it raises ImportError).
\* --error-threshold values, in percent.
Thresholds == {0, 50, 100}

InitRun(counts, concurrencies) ==
    /\ InitResult
    /\ RecIdle /\ TimedIdle /\ WebIdle /\ OtherIdle
    /\ program = "stress"
    /\ count \in counts
    /\ concurrent_num \in concurrencies
    /\ error_threshold = -1
    /\ mpc = "check_config" /\ exit_status = -1 /\ login_state = "none"
    /\ auth_calls = 0
    /\ threads = 0 /\ join_idx = 0 /\ caught = FALSE /\ interrupted = FALSE
    /\ er_total = 0
    /\ task_queue = <<>> /\ unfinished_tasks = 0 /\ stop_event = FALSE
    /\ wpc = [w \in Workers |-> "unstarted"]
    /\ cur = [w \in Workers |-> -1]
    /\ deq = [u \in Units |-> 0]
    /\ acks = [u \in Units |-> 0]
    /\ recs = [u \in Units |-> 0]
    /\ n_ok = 0 /\ n_raise = 0 /\ progress = {}

InitStress == InitRun(0..MaxCount, 0..MaxConc)

\* main(): `if not check_config(): return 1`.
MainCheckConfig ==
    /\ mpc = "check_config"
    /\ \E ok \in BOOLEAN :
          IF ok THEN mpc' = "login" /\ UNCHANGED exit_status
                ELSE mpc' = "exited" /\ exit_status' = 1
    /\ UNCHANGED <<resVars, recVars, otherVars, program, timedVars, webVars, argVars, login_state, auth_calls, threads,
                   join_idx, caught, interrupted, er_total, queueVars,
                   workerVars, histVars>>

\* What run_stress_test does when query.login() returned False: sys.exit(1).
SkipExit_AfterLoginFailed == "fill"

AfterLoginFailed == "exited"

\* run_stress_test: result = StressTestResult(); query = Query();
\* `if not query.login(): sys.exit(1)`. SystemExit is no Exception: it passes
\* main's handlers and the process ends with status 1.
StressLogin ==
    /\ mpc = "login"
    /\ auth_calls' = auth_calls + 1
    /\ \E ok \in BOOLEAN :
          IF ok THEN /\ login_state' = "ok"
                     /\ mpc' = "fill"
                     /\ UNCHANGED exit_status
                ELSE /\ login_state' = "failed"
                     /\ mpc' = AfterLoginFailed
                     /\ exit_status' = IF AfterLoginFailed = "exited" THEN 1
                                       ELSE exit_status
    /\ UNCHANGED <<resVars, recVars, otherVars, program, timedVars, webVars, argVars, threads, join_idx,
                   caught, interrupted, er_total, queueVars, workerVars,
                   histVars>>

\* task_queue = queue.Queue(); for i in range(count): task_queue.put(i).
\* Each put counts one unfinished task.
FilledQueue(n) == [i \in 1..n |-> i - 1]

FillQueue ==
    /\ mpc = "fill"
    /\ task_queue' = FilledQueue(count)
    /\ unfinished_tasks' = count
    /\ mpc' = "starting"
    /\ UNCHANGED <<resVars, recVars, otherVars, program, timedVars, webVars, argVars, exit_status, login_state, auth_calls,
                   threads, join_idx, caught, interrupted, er_total, stop_event,
                   workerVars, histVars>>

\* for i in range(concurrent_num): thread.start(); threads.append(thread);
\* time.sleep(interval) between two starts.
Extra_StartsAnother(started, n) == started <= n

StartsAnother(started, n) == started < n

StartThread ==
    /\ mpc = "starting"
    /\ StartsAnother(threads, concurrent_num)
    /\ threads' = threads + 1
    /\ wpc' = [wpc EXCEPT ![threads + 1] = "loop"]
    /\ UNCHANGED <<resVars, recVars, otherVars, program, timedVars, webVars, argVars, mpc, exit_status,
                   login_state, auth_calls, join_idx, caught, interrupted, er_total,
                   queueVars, cur, histVars>>

\* The start loop is over: the main thread enters the try and calls
\* task_queue.join().
StartDone ==
    /\ mpc = "starting"
    /\ threads = concurrent_num
    /\ mpc' = "waiting"
    /\ UNCHANGED <<resVars, recVars, otherVars, program, timedVars, webVars, argVars, exit_status, login_state, auth_calls,
                   threads, join_idx, caught, interrupted, er_total, queueVars,
                   workerVars, histVars>>

\* task_queue.join() returns once every put has been matched by a task_done.
QueueJoinReturn ==
    /\ mpc = "waiting"
    /\ unfinished_tasks = 0
    /\ mpc' = "finally"
    /\ UNCHANGED <<resVars, recVars, otherVars, program, timedVars, webVars, argVars, exit_status, login_state, auth_calls,
                   threads, join_idx, caught, interrupted, er_total, queueVars,
                   workerVars, histVars>>

\* Where a KeyboardInterrupt raised inside task_queue.join() takes the main
\* thread: `except KeyboardInterrupt:` logs a warning and falls into finally.
Reraise_AfterInterruptInWait == "exited"

AfterInterruptInWait == "finally"

\* Ctrl-C while the workers are being started: the loop is outside the try, the
\* exception leaves run_stress_test and main returns 130.
InterruptStarting ==
    /\ mpc = "starting"
    /\ interrupted' = TRUE
    /\ mpc' = "exited"
    /\ exit_status' = 130
    /\ UNCHANGED <<resVars, recVars, otherVars, program, timedVars, webVars, argVars, login_state, auth_calls, threads,
                   join_idx, caught, er_total, queueVars, workerVars, histVars>>

\* Ctrl-C while the main thread waits in task_queue.join().
InterruptWaiting ==
    /\ mpc = "waiting"
    /\ interrupted' = TRUE
    /\ mpc' = AfterInterruptInWait
    /\ IF AfterInterruptInWait = "finally"
          THEN caught' = TRUE /\ UNCHANGED exit_status
          ELSE exit_status' = 130 /\ UNCHANGED caught
    /\ UNCHANGED <<resVars, recVars, otherVars, program, timedVars, webVars, argVars, login_state, auth_calls, threads,
                   join_idx, er_total, queueVars, workerVars, histVars>>

\* Ctrl-C inside the finally block (the joins): nothing catches it before main.
InterruptJoining ==
    /\ mpc = "joining"
    /\ interrupted' = TRUE
    /\ mpc' = "exited"
    /\ exit_status' = 130
    /\ UNCHANGED <<resVars, recVars, otherVars, program, timedVars, webVars, argVars, login_state, auth_calls, threads,
                   join_idx, caught, er_total, queueVars, workerVars, histVars>>

\* finally: stop_event.set().
\* threading.Event.set(): the flag is true afterwards.
stop_event_set(flag) == TRUE

StopEventSet ==
    /\ mpc = "finally"
    /\ stop_event' = stop_event_set(stop_event)
    /\ join_idx' = 1
    /\ mpc' = "joining"
    /\ UNCHANGED <<resVars, recVars, otherVars, program, timedVars, webVars, argVars, exit_status, login_state, auth_calls,
                   threads, caught, interrupted, er_total, task_queue,
                   unfinished_tasks, workerVars, histVars>>

\* thread.join(timeout=1.0) returns because the thread has ended.
JoinThreadEnded ==
    /\ mpc = "joining"
    /\ join_idx <= threads
    /\ wpc[join_idx] = "exited"
    /\ join_idx' = join_idx + 1
    /\ UNCHANGED <<resVars, recVars, otherVars, program, timedVars, webVars, argVars, mpc, exit_status,
                   login_state, auth_calls, threads, caught, interrupted, er_total,
                   queueVars, workerVars, histVars>>

\* thread.join(timeout=1.0) gives up after one second. The only step of a worker
\* whose duration the code does not bound is the scenario call (the dequeue
\* polls for 0.1 s): the timeout elapses on a worker inside a scenario.
JoinThreadTimeout ==
    /\ mpc = "joining"
    /\ join_idx <= threads
    /\ wpc[join_idx] = "scenario"
    /\ join_idx' = join_idx + 1
    /\ UNCHANGED <<resVars, recVars, otherVars, program, timedVars, webVars, argVars, mpc, exit_status,
                   login_state, auth_calls, threads, caught, interrupted, er_total,
                   queueVars, workerVars, histVars>>

\* result.complete() at the end of finally, then `return result`.
Complete ==
    /\ mpc = "joining"
    /\ join_idx > threads
    /\ end_time' = TRUE
    /\ mpc' = "returned"
    /\ UNCHANGED <<success_count, fail_count, response_times, errors, lock,
                   recVars, otherVars, program, timedVars, webVars, argVars, exit_status, login_state, auth_calls, threads,
                   join_idx, caught, interrupted, er_total, queueVars,
                   workerVars, histVars>>

\* main(): result.print_summary(), then result.error_rate() loads
\* total = self.total_count().
ErrorRateLoadTotal ==
    /\ mpc = "returned"
    /\ er_total' = total_count
    /\ mpc' = "rate"
    /\ UNCHANGED <<resVars, recVars, otherVars, program, timedVars, webVars, argVars, exit_status, login_state, auth_calls,
                   threads, join_idx, caught, interrupted, queueVars,
                   workerVars, histVars>>

AtLeast_RateExceeds(fails, total, th) ==
    IF total = 0 THEN 0 >= th ELSE fails * 100 >= th * total

\* error_rate() > threshold, with error_rate() = 0 when total == 0 and
\* fail_count / total otherwise; the threshold th is in percent.
RateExceeds(fails, total, th) ==
    IF total = 0 THEN 0 > th ELSE fails * 100 > th * total

\* main(): return 1 when the error rate exceeds the threshold, else 0.
MainDecide ==
    /\ mpc = "rate"
    /\ \E th \in Thresholds :
          /\ error_threshold' = th
          /\ exit_status' = IF RateExceeds(fail_count, er_total, th) THEN 1
                            ELSE 0
    /\ mpc' = "exited"
    /\ UNCHANGED <<resVars, recVars, otherVars, program, timedVars, webVars, count,
                   concurrent_num, login_state, auth_calls, threads,
                   join_idx, caught, interrupted, er_total, queueVars,
                   workerVars, histVars>>

\* ---------------------------------------------- thread_worker and worker()
\* `while not stop_event.is_set():` the loop test.
IgnoreStop_LoopContinues(stop) == TRUE

LoopContinues(stop) == ~stop

WorkerLoopTest(w) ==
    /\ wpc[w] = "loop"
    /\ wpc' = [wpc EXCEPT ![w] = IF LoopContinues(stop_event) THEN "get"
                                 ELSE "exited"]
    /\ UNCHANGED <<resVars, recVars, otherVars, program, timedVars, webVars, argVars, mainVars, queueVars, cur,
                   histVars>>

\* What task_queue.get leaves in the queue: the head is removed.
Peek_QueueAfterGet(q) == q

QueueAfterGet(q) == Tail(q)

\* task_queue.get(block=True, timeout=0.1) hands out the head of the queue;
\* worker() starts the scenario.
WorkerGet(w) ==
    /\ wpc[w] = "get"
    /\ task_queue /= <<>>
    /\ cur' = [cur EXCEPT ![w] = Head(task_queue)]
    /\ task_queue' = QueueAfterGet(task_queue)
    /\ deq' = [deq EXCEPT ![Head(task_queue)] = @ + 1]
    /\ wpc' = [wpc EXCEPT ![w] = "scenario"]
    /\ UNCHANGED <<resVars, recVars, otherVars, program, timedVars, webVars, argVars, mainVars,
                   unfinished_tasks, stop_event, acks, recs, n_ok, n_raise,
                   progress>>

\* task_queue.get(block=True, timeout=0.1) on a queue that stays empty ends
\* after the timeout by raising queue.Empty (without a timeout it would wait
\* for a put).
GetRaisesEmpty(q) == q = <<>>

\* The queue stayed empty for 0.1 s: queue.Empty, `continue`.
WorkerGetEmpty(w) ==
    /\ wpc[w] = "get"
    /\ GetRaisesEmpty(task_queue)
    /\ wpc' = [wpc EXCEPT ![w] = "loop"]
    /\ UNCHANGED <<resVars, recVars, otherVars, program, timedVars, webVars, argVars, mainVars, queueVars, cur,
                   histVars>>

\* The Query methods the scenario functions of SCENARIO_MAP call
\* (scenarios/scenarios.py); none of these methods assigns uid, token or a
\* session header.
Relogin_ScenarioCalls ==
    {"login", "query_high_speed_ticket", "query_orders"}

ScenarioCalls ==
    {"cancel_order", "pay_order", "preserve", "put_consign",
     "query_assurances", "query_food", "query_high_speed_ticket",
     "query_high_speed_ticket_parallel", "query_normal_ticket",
     "query_orders", "query_orders_all_info", "rebook_ticket"}

\* The calls that authenticate the session.
AuthMethods == {"login", "refresh_token"}

\* How many authenticating calls one scenario invocation makes.
ScenarioAuthCalls == Cardinality(ScenarioCalls \cap AuthMethods)

\* worker(): scenario_func(query) returned; result.add_success(response_time).
ScenarioReturn(w) ==
    /\ wpc[w] = "scenario"
    /\ \E lat \in Latencies : AddSuccess(lat)
    /\ n_ok' = n_ok + 1
    /\ recs' = [recs EXCEPT ![cur[w]] = @ + 1]
    /\ wpc' = [wpc EXCEPT ![w] = "task_done"]
    /\ auth_calls' = auth_calls + ScenarioAuthCalls
    /\ UNCHANGED <<lock, end_time, recVars, otherVars, program, timedVars,
                   webVars, argVars, mpc, exit_status, login_state, threads,
                   join_idx, caught, interrupted, er_total, queueVars, cur,
                   deq, acks, n_raise, progress>>

\* What worker()'s `except Exception` records for a scenario that raised.
AsSuccess_RecordRaise(error) == AddSuccess(1)

RecordRaise(error) == AddFailure(error)

\* worker(): scenario_func(query) raised; the except clause records a failure.
ScenarioRaise(w) ==
    /\ wpc[w] = "scenario"
    /\ \E e \in ErrorStrings : RecordRaise(e)
    /\ n_raise' = n_raise + 1
    /\ recs' = [recs EXCEPT ![cur[w]] = @ + 1]
    /\ wpc' = [wpc EXCEPT ![w] = "task_done"]
    /\ auth_calls' = auth_calls + ScenarioAuthCalls
    /\ UNCHANGED <<lock, end_time, recVars, otherVars, program, timedVars,
                   webVars, argVars, mpc, exit_status, login_state, threads,
                   join_idx, caught, interrupted, er_total, queueVars, cur,
                   deq, acks, n_ok, progress>>

\* task_queue.task_done().
WorkerTaskDone(w) ==
    /\ wpc[w] = "task_done"
    /\ unfinished_tasks' = unfinished_tasks - 1
    /\ acks' = [acks EXCEPT ![cur[w]] = @ + 1]
    /\ wpc' = [wpc EXCEPT ![w] = "progress"]
    /\ UNCHANGED <<resVars, recVars, otherVars, program, timedVars, webVars, argVars, mainVars, task_queue,
                   stop_event, cur, deq, recs, n_ok, n_raise, progress>>

\* completed = result.total_count(); the progress line is logged when
\* completed % 10 == 0 or completed == count. Back to the loop test.
WorkerProgress(w) ==
    /\ wpc[w] = "progress"
    /\ progress' = IF total_count % 10 = 0 \/ total_count = count
                      THEN progress \cup {total_count} ELSE progress
    /\ cur' = [cur EXCEPT ![w] = -1]
    /\ wpc' = [wpc EXCEPT ![w] = "loop"]
    /\ UNCHANGED <<resVars, recVars, otherVars, program, timedVars, webVars, argVars, mainVars, queueVars, deq,
                   acks, recs, n_ok, n_raise>>

MainStep ==
    \/ MainCheckConfig
    \/ StressLogin
    \/ FillQueue
    \/ StartThread
    \/ StartDone
    \/ QueueJoinReturn
    \/ StopEventSet
    \/ JoinThreadEnded
    \/ JoinThreadTimeout
    \/ Complete
    \/ ErrorRateLoadTotal
    \/ MainDecide

\* One step of thread_worker. Its last clause, `except Exception` (386-389),
\* has no step: worker() catches every Exception of the scenario, the queue
\* holds an unfinished task for each task_done, and count >= 1 once a unit
\* was dequeued, so nothing in the try block raises into it.
WorkerStep(w) ==
    \/ WorkerLoopTest(w)
    \/ WorkerGet(w)
    \/ WorkerGetEmpty(w)
    \/ ScenarioReturn(w)
    \/ ScenarioRaise(w)
    \/ WorkerTaskDone(w)
    \/ WorkerProgress(w)

NextStress ==
    \/ MainStep
    \/ InterruptStarting
    \/ InterruptWaiting
    \/ InterruptJoining
    \/ \E w \in Workers : WorkerStep(w)

StressSpec == InitStress /\ [][NextStress]_vars

\* A load run of ProgressCount units on two workers that no Ctrl-C
\* interrupts: every unit is executed before the joins, so no join times out.
InitProgress == InitRun({ProgressCount}, {2})

NextProgress ==
    \/ MainCheckConfig
    \/ StressLogin
    \/ FillQueue
    \/ StartThread
    \/ StartDone
    \/ QueueJoinReturn
    \/ StopEventSet
    \/ JoinThreadEnded
    \/ Complete
    \/ ErrorRateLoadTotal
    \/ MainDecide
    \/ \E w \in Workers : WorkerStep(w)

ProgressSpec == InitProgress /\ [][NextProgress]_vars

\* ------------------------------------------- timed_task.py: TimedTaskRunner
\* len(SCENARIOS)
NumScenarios == 10

\* --interval, in seconds: the clock `now` counts seconds.
interval == 1

\* schedule's Job.run(): job_func() is called, and the job is due again one
\* period after the moment job_func returned (not after the moment it was
\* due): the periods that passed while it ran are not made up for.
FixedRate_NextRun(was_due, finished, period) == was_due + period

NextRun(was_due, finished, period) == finished + period

\* How long a scenario runs, in seconds: no time, or several intervals.
Durations == {0, 3 * interval}

\* --token-refresh, in seconds: at once, after two seconds, beyond the run
\* (an even number of seconds, whose half, the period of the token check, falls
\* within the run).
TokenRefreshIntervals == {0, 2, 2 * ((MaxNow + 2) \div 2)}

\* min(300, self.token_refresh_interval / 2)
token_check_interval(refresh_interval) ==
    IF refresh_interval \div 2 > 300 THEN 300 ELSE refresh_interval \div 2

\* The methods class Query defines (core/queries.py); refresh_token is not
\* among them.
QueryMethods ==
    {"login", "query_high_speed_ticket", "query_normal_ticket",
     "query_orders", "query_food", "cancel_order", "pay_order", "put_consign",
     "query_orders_all_info", "query_high_speed_ticket_parallel",
     "query_advanced_ticket", "query_assurances", "query_contacts",
     "query_other_orders", "query_route", "query_cheapest",
     "query_min_station", "query_quickest", "query_admin_basic_price",
     "query_admin_basic_config", "rebook_ticket", "query_admin_travel",
     "preserve"}

\* What self.query.refresh_token() can do: return True or False if Query
\* defines the method, raise AttributeError if it does not.
RefreshResults ==
    IF "refresh_token" \in QueryMethods THEN {"True", "False"}
    ELSE {"AttributeError"}

\* refresh_token_if_needed:
\* current_time - self.last_token_refresh >= self.token_refresh_interval
RefreshDue == now - last_token_refresh >= token_refresh_interval

\* start(): what follows a setup() that returned False: `return`.
Proceed_AfterSetupFailed == "first"

AfterSetupFailed == "returned"

\* start(): `if not self.setup(): return`, else self.running = True.
\* setup() returns False when check_config() fails (no Query is made) or when
\* self.query.login() fails; after a login it sets last_token_refresh.
TimedSetup ==
    /\ tpc = "start"
    /\ \E cfg_ok \in BOOLEAN, login_ok \in BOOLEAN :
          /\ login_state' = IF ~cfg_ok THEN "none"
                            ELSE IF login_ok THEN "ok" ELSE "failed"
          /\ IF cfg_ok /\ login_ok
                THEN /\ tpc' = "first" /\ running' = TRUE
                     /\ last_token_refresh' = now
                     /\ stop_cause' = "none"
                ELSE /\ tpc' = AfterSetupFailed
                     /\ running' = (AfterSetupFailed /= "returned")
                     /\ stop_cause' = "setup"
                     /\ UNCHANGED last_token_refresh
    /\ UNCHANGED <<resVars, recVars, otherVars, program, argVars, mpc,
                   exit_status, threads, join_idx, caught, interrupted,
                   er_total, auth_calls, queueVars, workerVars, histVars,
                   current_scenario_index, jobs, t_exec, health, now,
                   token_refresh_interval, next_run, t_calls,
                   refresh_failures, last_tick, stop_calls,
                   webVars>>

\* run_next_scenario 184-204: the health file is opened and written after
\* scenario_func returned, inside the try that scenario_func runs in: an
\* exception of the scenario skips the write.
HealthWritten(raised, health_ok) == ~raised /\ health_ok

\* run_next_scenario 201-204: the tick is logged as a failed scenario ("执行出错")
\* by the outer except only; an exception of the health write is caught by the
\* inner except (a warning) and does not reach it.
Outer_ScenarioFailed(raised, health_ok) == raised \/ ~health_ok

ScenarioFailed(raised, health_ok) == raised

\* run_next_scenario() past the refresh: the scenario at
\* current_scenario_index runs (it returns or raises, both are caught), the
\* health file is written after a scenario that returned (a failed write is only
\* logged), and the index advances modulo the number of scenarios.
\* The scenario takes `duration` seconds; current_time is read before it.
TickEffect(raised, health_ok, duration) ==
    /\ t_exec' = t_exec + 1
    /\ now' = now + duration
    /\ health' = IF HealthWritten(raised, health_ok)
                    THEN [execution |-> now,
                          scenario |-> current_scenario_index,
                          refresh |-> last_token_refresh']
                    ELSE health
    /\ last_tick' =
          [made |-> TRUE, scenario |-> current_scenario_index,
           raised |-> raised, health_ok |-> health_ok,
           start |-> now, finish |-> now + duration,
           prev_start |-> last_tick.start, prev_finish |-> last_tick.finish,
           first |-> (tpc = "first"), token_at |-> last_tick.token_at,
           health_failed |-> (last_tick.health_failed \/
                              (~raised /\ ~health_ok)),
           failed |-> ScenarioFailed(raised, health_ok)]
    /\ current_scenario_index' = (current_scenario_index + 1) % NumScenarios

\* refresh_token_if_needed() with the result `refresh` of refresh_token(),
\* called only when the refresh is due: True sets last_token_refresh, False is
\* logged, an exception leaves the method at once.
RefreshEffect(refresh) ==
    /\ last_token_refresh' = IF RefreshDue /\ refresh = "True" THEN now
                             ELSE last_token_refresh
    /\ refresh_failures' = IF RefreshDue /\ refresh /= "True"
                              THEN refresh_failures + 1
                              ELSE refresh_failures

\* The exception of refresh_token_if_needed() is caught nowhere in
\* run_next_scenario: it leaves the call before the scenario is looked up.
RefreshRaises(refresh) == RefreshDue /\ refresh = "AttributeError"

\* One call of run_next_scenario() on a runner whose query is set.
RunNextScenario(refresh, raised, health_ok, duration) ==
    /\ t_calls' = t_calls + 1
    /\ RefreshEffect(refresh)
    /\ IF RefreshRaises(refresh)
          THEN UNCHANGED <<t_exec, health, current_scenario_index, now,
                           last_tick>>
          ELSE TickEffect(raised, health_ok, duration)

\* start(): the immediate first run_next_scenario(), outside the try: an
\* exception of the refresh leaves start() with running still True.
TimedFirstRun ==
    /\ tpc = "first"
    /\ \E refresh \in RefreshResults, raised \in BOOLEAN, health_ok \in BOOLEAN,
          duration \in Durations :
          /\ now + duration <= MaxNow
          /\ RunNextScenario(refresh, raised, health_ok, duration)
          /\ tpc' = IF RefreshRaises(refresh) THEN "crashed" ELSE "schedule"
          /\ stop_cause' = IF RefreshRaises(refresh) THEN "exception"
                           ELSE stop_cause
    /\ UNCHANGED <<resVars, recVars, otherVars, program, stressVars, running,
                   jobs, token_refresh_interval, next_run, stop_calls,
                   webVars>>

\* schedule.every(interval).seconds.do(run_next_scenario) and
\* schedule.every(token_check_interval).seconds.do(token_refresh_scheduler):
\* each job is first due one period from now.
TimedSchedule ==
    /\ tpc = "schedule"
    /\ jobs' = {"run_next_scenario", "token_refresh_scheduler"}
    /\ next_run' = [job \in {"run_next_scenario", "token_refresh_scheduler"} |->
                      IF job = "run_next_scenario" THEN now + interval
                      ELSE now + token_check_interval(token_refresh_interval)]
    /\ tpc' = "loop"
    /\ UNCHANGED <<resVars, recVars, otherVars, program, stressVars, running,
                   current_scenario_index, t_exec, health, now,
                   last_token_refresh, token_refresh_interval, t_calls,
                   refresh_failures, stop_cause, last_tick, stop_calls,
                   webVars>>

\* A registered job whose time has come.
JobDue(job) == job \in jobs /\ next_run[job] <= now

\* Main loop, schedule.run_pending(): the scenario job is due; it runs and is
\* due again one period later. An exception of the refresh leaves run_pending
\* and is caught by `except Exception`; finally sets running False.
TimedScenarioJob ==
    /\ tpc = "loop" /\ running
    /\ JobDue("run_next_scenario")
    /\ \E refresh \in RefreshResults, raised \in BOOLEAN, health_ok \in BOOLEAN,
          duration \in Durations :
          /\ now + duration <= MaxNow
          /\ RunNextScenario(refresh, raised, health_ok, duration)
          /\ IF RefreshRaises(refresh)
                THEN /\ tpc' = "returned" /\ running' = FALSE
                     /\ stop_cause' = "exception"
                     /\ UNCHANGED next_run
                ELSE /\ next_run' =
                          [next_run EXCEPT !["run_next_scenario"] =
                              NextRun(next_run["run_next_scenario"], now',
                                      interval)]
                     /\ UNCHANGED <<tpc, running, stop_cause>>
    /\ UNCHANGED <<resVars, recVars, otherVars, program, stressVars, jobs,
                   token_refresh_interval, stop_calls,
                   webVars>>

\* Main loop, schedule.run_pending(): the token check job is due:
\* token_refresh_scheduler() calls refresh_token_if_needed().
TimedTokenJob ==
    /\ tpc = "loop" /\ running
    /\ JobDue("token_refresh_scheduler")
    /\ last_tick' = [last_tick EXCEPT !.token_at = now]
    /\ \E refresh \in RefreshResults :
          /\ RefreshEffect(refresh)
          /\ IF RefreshRaises(refresh)
                THEN /\ tpc' = "returned" /\ running' = FALSE
                     /\ stop_cause' = "exception"
                     /\ UNCHANGED next_run
                ELSE /\ next_run' =
                          [next_run EXCEPT !["token_refresh_scheduler"] =
                              NextRun(next_run["token_refresh_scheduler"], now,
                                  token_check_interval(token_refresh_interval))]
                     /\ UNCHANGED <<tpc, running, stop_cause>>
    /\ UNCHANGED <<resVars, recVars, otherVars, program, stressVars, jobs,
                   current_scenario_index, t_exec, health, now,
                   token_refresh_interval, t_calls, stop_calls,
                   webVars>>

\* Main loop: run_pending() found no job due; time.sleep(1).
TimedSleep ==
    /\ tpc = "loop" /\ running
    /\ \A job \in jobs : ~JobDue(job)
    /\ now < MaxNow
    /\ now' = now + 1
    /\ UNCHANGED <<resVars, recVars, otherVars, program, stressVars, tpc,
                   running, current_scenario_index, jobs, t_exec, health,
                   last_token_refresh, token_refresh_interval, next_run,
                   t_calls, refresh_failures, stop_cause, last_tick, stop_calls,
                   webVars>>

\* Main loop: KeyboardInterrupt; finally sets running False.
TimedInterrupt ==
    /\ tpc = "loop"
    /\ tpc' = "returned" /\ running' = FALSE
    /\ stop_cause' = "interrupt"
    /\ UNCHANGED <<resVars, recVars, otherVars, program, stressVars, jobs,
                   current_scenario_index, t_exec, health, now,
                   last_token_refresh, token_refresh_interval, next_run,
                   t_calls, refresh_failures, last_tick, stop_calls,
                   webVars>>

\* stop() is called up to twice on one runner: the second call is the
\* repeated one.
MaxStops == 2

\* TimedTaskRunner.stop(): self.running = False.
Toggle_stop(is_running) == ~is_running

stop(is_running) == FALSE

\* stop() called from outside the loop's thread while start() is in its main
\* loop (no code of the repository calls it).
TimedStop ==
    /\ program = "timed"
    /\ tpc = "loop"
    /\ stop_calls < MaxStops
    /\ running' = stop(running)
    /\ stop_calls' = stop_calls + 1
    /\ UNCHANGED <<resVars, recVars, otherVars, program, stressVars, tpc,
                   current_scenario_index, jobs, t_exec, health, now,
                   last_token_refresh, token_refresh_interval, next_run,
                   t_calls, refresh_failures, stop_cause, last_tick, webVars>>

\* Main loop: `while self.running` finds running False; finally.
TimedLoopExit ==
    /\ program = "timed"
    /\ tpc = "loop" /\ ~running
    /\ tpc' = "returned"
    /\ stop_cause' = "stop"
    /\ UNCHANGED <<resVars, recVars, otherVars, program, stressVars, running,
                   current_scenario_index, jobs, t_exec, health, now,
                   last_token_refresh, token_refresh_interval, next_run,
                   t_calls, refresh_failures, last_tick, stop_calls, webVars>>

\* main(): runner.start() returned; `return 0`, and sys.exit(main()).
\* main() is followed from the construction of the runner (319-329): the
\* logging call before it (311) is taken to return. With config.setup_logging
\* as it stands in utils/config.py, which accepts no `level` keyword, that
\* call raises TypeError and the CLI ends before a runner exists.
\* The module is followed as an interpreter that accepts it runs it: the
\* f-string at 195-198 breaks its replacement field across lines, which
\* Python before 3.12 rejects with SyntaxError at import (setup.py allows
\* >=3.8), so that there no TimedTaskRunner is ever constructed.
TimedMainReturn ==
    /\ program = "timed"
    /\ tpc = "returned" /\ exit_status = -1
    /\ exit_status' = 0
    /\ UNCHANGED <<resVars, recVars, otherVars, program, argVars, mpc,
                   login_state, auth_calls, threads, join_idx, caught, interrupted,
                   er_total, queueVars, workerVars, histVars, timedVars,
                   webVars>>

\* main(): an exception left runner.start() and main() handles none: the
\* interpreter prints the traceback and the process ends with status 1.
TimedMainCrash ==
    /\ program = "timed"
    /\ tpc = "crashed" /\ exit_status = -1
    /\ exit_status' = 1
    /\ UNCHANGED <<resVars, recVars, otherVars, program, argVars, mpc,
                   login_state, auth_calls, threads, join_idx, caught, interrupted,
                   er_total, queueVars, workerVars, histVars, timedVars,
                   webVars>>

\* TimedTaskRunner.__init__ with the --token-refresh argument.
InitTimed ==
    /\ InitResult /\ RecIdle /\ StressIdle /\ WebIdle /\ OtherIdle
    /\ program = "timed"
    /\ tpc = "start"
    /\ InitTimedRunner
    /\ token_refresh_interval \in TokenRefreshIntervals

NextTimed ==
    \/ TimedSetup
    \/ TimedFirstRun
    \/ TimedSchedule
    \/ TimedScenarioJob
    \/ TimedTokenJob
    \/ TimedSleep
    \/ TimedInterrupt
    \/ TimedStop
    \/ TimedLoopExit
    \/ TimedMainReturn
    \/ TimedMainCrash

\* ------------------------------------------------ web/app.py: the ws handler
\* ThreadPoolExecutor(max_workers=min(concurrency, 100))
PoolCap == 100

PoolSize(concurrency) == IF concurrency < PoolCap THEN concurrency ELSE PoolCap

\* safe_send(ws, ...) called `messages` times in a row: on a closed socket it
\* logs and returns False; else the serialised message is put on
\* message_queue and it returns True. It raises nothing: any exception inside
\* it is caught and turned into False.
SafeSend(messages) ==
    /\ message_queue' = IF ws_connected THEN message_queue + messages
                        ELSE message_queue
    /\ enqueued' = IF ws_connected THEN enqueued + messages ELSE enqueued

WebRunning == Cardinality({i \in WebTasks : tstate[i] \in
                              {"scenario", "store", "progress"}})

\* ws(): the first safe_send fails on a closed socket and the handler returns;
\* else the configuration is received (None: return), Query() and
\* ScenarioRunner(query) are created - login is not called -, the selected
\* scenarios are added, test_results is reset and the pool is created.
\* max_workers <= 0 raises ValueError, caught by the handler's except.
WebConfigure ==
    /\ hpc = "connect"
    /\ IF ~ws_connected
          THEN hpc' = "done"
               /\ UNCHANGED <<web_count, web_conc, web_catalog, message_queue,
                              enqueued>>
          ELSE \E cfg \in BOOLEAN, n \in 0..MaxWebCount, c \in 0..MaxWebConc,
                  k \in 0..1 :
                 IF ~cfg
                    THEN hpc' = "done" /\ SafeSend(1)
                         /\ UNCHANGED <<web_count, web_conc, web_catalog>>
                    ELSE /\ web_count' = n /\ web_conc' = c /\ web_catalog' = k
                         /\ hpc' = IF c <= 0 THEN "done" ELSE "submit"
                         \* the stage messages: waiting, initialising, one
                         \* per scenario loaded, starting; and the error
                         \* message of the handler's except
                         /\ SafeSend(3 + k + IF c <= 0 THEN 1 ELSE 0)
    /\ UNCHANGED <<completes, complete_at, progress_events, complete_counts>>
    /\ UNCHANGED <<resVars, recVars, otherVars, program, stressVars, timedVars,
                   sender_alive, dropped, delivered, other_resets,
                   other_execs,
                   ws_connected, submitted, looped, tstate, ttmp, exec_total,
                   exec_success, exec_failure, counter, web_invoked>>

\* for _ in range(total_count): scenario = runner._select_random_scenario();
\* `if scenario:` executor.submit(execute_scenario, ...). An empty catalog
\* selects None and submits nothing.
WebSubmit ==
    /\ hpc = "submit"
    /\ looped < web_count
    /\ looped' = looped + 1
    /\ IF web_catalog > 0
          THEN /\ submitted' = submitted + 1
               /\ tstate' = [tstate EXCEPT ![submitted + 1] = "queued"]
          ELSE UNCHANGED <<submitted, tstate>>
    /\ UNCHANGED <<message_queue, enqueued>>
    /\ UNCHANGED <<completes, complete_at, progress_events, complete_counts>>
    /\ UNCHANGED <<resVars, recVars, otherVars, program, stressVars, timedVars,
                   sender_alive, dropped, delivered, other_resets,
                   other_execs, hpc,
                   ws_connected, web_count, web_conc, web_catalog, ttmp,
                   exec_total, exec_success, exec_failure, counter, web_invoked>>

WebSubmitDone ==
    /\ hpc = "submit"
    /\ looped = web_count
    /\ hpc' = "wait"
    /\ SafeSend(1)
    /\ UNCHANGED <<completes, complete_at, progress_events, complete_counts>>
    /\ UNCHANGED <<resVars, recVars, otherVars, program, stressVars, timedVars,
                   sender_alive, dropped, delivered, other_resets,
                   other_execs,
                   ws_connected, web_count, web_conc, web_catalog, submitted,
                   looped, tstate, ttmp, exec_total, exec_success, exec_failure,
                   counter, web_invoked>>

NoWait_AllFuturesDone(states) == TRUE

\* `for future in futures: future.result()` and the exit of the
\* `with ThreadPoolExecutor` block: every submitted call has returned.
AllFuturesDone(states) ==
    \A i \in DOMAIN states : states[i] \in {"none", "done"}

\* After the pool: the "computing" stage message, the statistics, and
\* safe_send(ws, "complete", final_results), whose "execution" is
\* test_results["execution"].
WebComplete ==
    /\ hpc = "wait"
    /\ AllFuturesDone(tstate)
    /\ hpc' = "done"
    /\ SafeSend(2)
    /\ IF ws_connected
          THEN /\ completes' = completes + 1
               /\ complete_at' = enqueued + 2
               /\ complete_counts' = [total |-> exec_total,
                                      success |-> exec_success,
                                      failure |-> exec_failure]
          ELSE UNCHANGED <<completes, complete_at, complete_counts>>
    /\ UNCHANGED progress_events
    /\ UNCHANGED <<resVars, recVars, otherVars, program, stressVars, timedVars,
                   sender_alive, dropped, delivered, other_resets,
                   other_execs,
                   ws_connected, web_count, web_conc, web_catalog, submitted,
                   looped, tstate, ttmp, exec_total, exec_success, exec_failure,
                   counter, web_invoked>>

\* The steps of one execute_scenario call end where it next touches what the
\* other threads share: what it does in between is private to its thread.
\* A free pool thread takes the oldest queued execute_scenario call:
\* `if not safe_send(ws, "stage", ...): return`; else the scenario is invoked
\* with the shared query.
WebTaskStage(i) ==
    /\ tstate[i] = "queued"
    /\ \A j \in WebTasks : j < i => tstate[j] /= "queued"
    /\ WebRunning < PoolSize(web_conc)
    /\ IF ws_connected
          THEN /\ tstate' = [tstate EXCEPT ![i] = "scenario"]
               /\ web_invoked' = web_invoked + 1
          ELSE /\ tstate' = [tstate EXCEPT ![i] = "done"]
               /\ UNCHANGED web_invoked
    /\ SafeSend(1)
    /\ UNCHANGED <<resVars, recVars, otherVars, program, stressVars, timedVars,
                   sender_alive, dropped, delivered, other_resets,
                   other_execs, hpc, ws_connected, web_count, web_conc,
                   web_catalog, submitted, looped, completes, complete_at,
                   complete_counts, ttmp, exec_total, exec_success,
                   exec_failure, counter, progress_events>>

\* The scenario returned (status 200 or an error status) or raised: the
\* execution success / failure count is incremented and the log or error
\* message sent. Then test_results["execution"]["total"] += 1, which takes
\* no lock, loads the total ...
WebTaskOutcome(i) ==
    /\ tstate[i] = "scenario"
    /\ \E ok \in BOOLEAN :
          IF ok THEN exec_success' = exec_success + 1 /\ UNCHANGED exec_failure
                ELSE exec_failure' = exec_failure + 1 /\ UNCHANGED exec_success
    /\ ttmp' = [ttmp EXCEPT ![i] = exec_total]
    /\ tstate' = [tstate EXCEPT ![i] = "store"]
    /\ SafeSend(1)
    /\ UNCHANGED <<resVars, recVars, otherVars, program, stressVars, timedVars,
                   sender_alive, dropped, delivered, other_resets,
                   other_execs, hpc, ws_connected, web_count, web_conc,
                   web_catalog, submitted, looped, completes, complete_at,
                   complete_counts, exec_total, counter, web_invoked,
                   progress_events>>

\* ... and stores it, incremented. current_count = counter.increment(),
\* under the counter's lock.
WebTaskStoreTotal(i) ==
    /\ tstate[i] = "store"
    /\ exec_total' = ttmp[i] + 1
    /\ counter' = counter + 1
    /\ ttmp' = [ttmp EXCEPT ![i] = counter + 1]
    /\ tstate' = [tstate EXCEPT ![i] = "progress"]
    /\ UNCHANGED <<message_queue, enqueued>>
    /\ UNCHANGED <<resVars, recVars, otherVars, program, stressVars, timedVars,
                   sender_alive, dropped, delivered, other_resets,
                   other_execs, hpc, ws_connected, web_count, web_conc,
                   web_catalog, submitted, looped, completes, complete_at,
                   complete_counts, exec_success, exec_failure, web_invoked,
                   progress_events>>

\* min(current_count, total_count)
Current(current_count, total) ==
    IF current_count < total THEN current_count ELSE total

\* safe_send(ws, "progress", {..., "current": min(current_count,
\* total_count), ...}), outside every lock; execute_scenario returns.
WebTaskProgress(i) ==
    /\ tstate[i] = "progress"
    /\ tstate' = [tstate EXCEPT ![i] = "done"]
    /\ ttmp' = [ttmp EXCEPT ![i] = 0]
    /\ SafeSend(1)
    /\ progress_events' =
          IF ws_connected
             THEN Append(progress_events, Current(ttmp[i], web_count))
             ELSE progress_events
    /\ UNCHANGED <<resVars, recVars, otherVars, program, stressVars, timedVars,
                   sender_alive, dropped, delivered, other_resets,
                   other_execs, hpc, ws_connected, web_count, web_conc,
                   web_catalog, submitted, looped, completes, complete_at,
                   complete_counts, exec_total, exec_success, exec_failure,
                   counter, web_invoked>>

\* The observer closes the WebSocket.
WebDisconnect ==
    /\ program = "web"
    /\ ws_connected
    /\ hpc /= "done"
    /\ ws_connected' = FALSE
    /\ UNCHANGED <<message_queue, enqueued>>
    /\ UNCHANGED <<completes, complete_at, progress_events, complete_counts>>
    /\ UNCHANGED <<resVars, recVars, otherVars, program, stressVars, timedVars,
                   sender_alive, dropped, delivered, other_resets,
                   other_execs, hpc,
                   web_count, web_conc, web_catalog, submitted, looped, tstate,
                   ttmp, exec_total, exec_success, exec_failure, counter,
                   web_invoked>>

\* message_sender, after ws.send(message) raised: the inner
\* `except Exception` logs it and the loop goes on.
\* message_queue.get(): queue.Queue is first in, first out, so the oldest of
\* the `size` messages on the queue, which hold the latest `size` numbers.
QueueGet(puts, size) == puts - size + 1

Dies_AfterSendError == FALSE

AfterSendError == TRUE

\* message_sender: one turn of its `while True` loop. message_queue.get()
\* returns the oldest message; `if ws and ws.connected` it is sent (the send
\* raises when the socket closes between the test and the send), else it is
\* dropped; message_queue.task_done().
WebSenderStep ==
    /\ program = "web"
    /\ sender_alive
    /\ message_queue > 0
    /\ message_queue' = message_queue - 1
    /\ IF ws_connected
          THEN \E closes \in BOOLEAN :
                  /\ ws_connected' = ~closes
                  /\ sender_alive' = IF closes THEN AfterSendError ELSE TRUE
                  /\ dropped' = IF closes THEN dropped + 1 ELSE dropped
                  /\ delivered' = IF closes THEN delivered
                                   ELSE QueueGet(enqueued, message_queue)
          ELSE /\ dropped' = dropped + 1
               /\ UNCHANGED <<ws_connected, sender_alive, delivered>>
    /\ UNCHANGED <<enqueued, completes, complete_at,
                   progress_events, complete_counts, other_resets,
                   other_execs>>
    /\ UNCHANGED <<resVars, recVars, otherVars, program, stressVars, timedVars,
                   hpc, web_count, web_conc, web_catalog, submitted, looped,
                   tstate, ttmp, exec_total, exec_success, exec_failure,
                   counter, web_invoked>>

InitWeb ==
    /\ InitResult /\ RecIdle /\ StressIdle /\ TimedIdle /\ OtherIdle
    /\ program = "web"
    /\ hpc = "connect"
    /\ ws_connected = TRUE
    /\ InitWebRun

NextWeb ==
    \/ WebConfigure
    \/ WebSubmit
    \/ WebSubmitDone
    \/ WebComplete
    \/ WebDisconnect
    \/ WebSenderStep
    \/ \E i \in WebTasks : WebTaskStage(i)
    \/ \E i \in WebTasks : WebTaskOutcome(i)
    \/ \E i \in WebTasks : WebTaskStoreTotal(i)
    \/ \E i \in WebTasks : WebTaskProgress(i)

\* ---- two dashboard connections at once (TwoRunSpec): the handler of a
\* second connection runs the same code on the same module-level
\* test_results while the first run is between its reset and its end.
\* The second handler's test_results.update({...}): the counts start again
\* at 0.
OtherRunReset ==
    /\ program = "web"
    /\ hpc \in {"submit", "wait"}
    /\ other_resets = 0
    /\ other_resets' = 1
    /\ exec_total' = 0 /\ exec_success' = 0 /\ exec_failure' = 0
    /\ UNCHANGED <<resVars, recVars, otherVars, program, stressVars, timedVars,
                   hpc, ws_connected, web_count, web_conc, web_catalog,
                   submitted, looped, tstate, ttmp, counter, web_invoked,
                   message_queue, sender_alive, dropped, enqueued, delivered,
                   completes, complete_at, progress_events, complete_counts,
                   other_execs>>

\* An execute_scenario call of the second run, which has its own counter and
\* its own socket: its outcome and its execution.total += 1.
OtherRunExecution ==
    /\ program = "web"
    /\ hpc \in {"submit", "wait"}
    /\ other_resets = 1
    /\ other_execs < MaxOtherExecs
    /\ other_execs' = other_execs + 1
    /\ \E ok \in BOOLEAN :
          IF ok THEN exec_success' = exec_success + 1 /\ UNCHANGED exec_failure
                ELSE exec_failure' = exec_failure + 1 /\ UNCHANGED exec_success
    /\ exec_total' = exec_total + 1
    /\ UNCHANGED <<resVars, recVars, otherVars, program, stressVars, timedVars,
                   hpc, ws_connected, web_count, web_conc, web_catalog,
                   submitted, looped, tstate, ttmp, counter, web_invoked,
                   message_queue, sender_alive, dropped, enqueued, delivered,
                   completes, complete_at, progress_events, complete_counts,
                   other_resets>>

NextTwoRun ==
    \/ NextWeb
    \/ OtherRunReset
    \/ OtherRunExecution

TwoRunSpec == InitWeb /\ [][NextTwoRun]_vars

\* ------------------- scenarios/runners.py: ScenarioRunner; utils/helpers.py
\* The names (__name__) of the scenario functions that can be registered.
ScenarioNames == {"query_food_scenario", "query_and_pay_ticket"}

\* The weights add_scenario is called with.
Weights == 0..MaxWeight

\* dict.get(key, default)
Get(d, key, default) == IF key \in DOMAIN d THEN d[key] ELSE default

\* The keys of the weight dict in insertion order: a dict keeps a key at the
\* place of its first insertion, and add_scenario inserts in list order.
RECURSIVE DictKeys(_)
DictKeys(scens) ==
    IF scens = <<>> THEN <<>>
    ELSE LET front == DictKeys(SubSeq(scens, 1, Len(scens) - 1))
             last == scens[Len(scens)]
         IN  IF \E i \in 1..Len(front) : front[i] = last THEN front
             ELSE Append(front, last)

\* sum(d.values())
RECURSIVE SumValues(_, _)
SumValues(d, keys) ==
    IF keys = <<>> THEN 0
    ELSE d[keys[1]] + SumValues(d, Tail(keys))

\* random.uniform(0, total) returns a + (b - a) * random(): a value between
\* the two ends, either end included (the weights here are not negative).
Draws(total) == 0..total

\* add_scenario(scenario, weight): append to the list, set the dict entry.
AddScenario(name, weight) ==
    /\ program \in {"select", "run"}
    /\ Len(scenarios) < MaxEntries
    /\ scenarios' = Append(scenarios, name)
    /\ scenario_weights' = (name :> weight) @@ scenario_weights
    /\ UNCHANGED <<resVars, recVars, program, stressVars, timedVars, webVars,
                   last_select, last_weighted, last_run, statVars, cliVars,
                   loginVars>>

Strict_RunnerHits(r, current_weight) == r < current_weight

\* _select_random_scenario: `if r <= current_weight`.
RunnerHits(r, current_weight) == r <= current_weight

\* _select_random_scenario: the loop over self.scenarios from entry i on with
\* current_weight accumulated so far, and `return self.scenarios[-1]` after it.
RECURSIVE WalkScenarios(_, _, _, _, _)
WalkScenarios(scens, d, r, i, current_weight) ==
    IF i > Len(scens) THEN scens[Len(scens)]
    ELSE LET cw == current_weight + Get(d, scens[i], 1)
         IN  IF RunnerHits(r, cw) THEN scens[i]
             ELSE WalkScenarios(scens, d, r, i + 1, cw)

\* _select_random_scenario with the draw r of random.uniform and the pick c
\* of random.choice: None for an empty list, random.choice for an empty dict.
select_random_scenario(scens, d, r, c) ==
    IF scens = <<>> THEN "None"
    ELSE IF DOMAIN d = {} THEN scens[c]
    ELSE WalkScenarios(scens, d, r, 1, 0)

Strict_HelperHits(ra, curr_sum) == ra < curr_sum

\* random_from_weighted: `if ra <= curr_sum`.
HelperHits(ra, curr_sum) == ra <= curr_sum

\* random_from_weighted: the loop over d.keys() from key i on; ret stays None
\* when no key is hit.
RECURSIVE WalkKeys(_, _, _, _, _)
WalkKeys(keys, d, ra, i, curr_sum) ==
    IF i > Len(keys) THEN "None"
    ELSE LET cs == curr_sum + d[keys[i]]
         IN  IF HelperHits(ra, cs) THEN keys[i]
             ELSE WalkKeys(keys, d, ra, i + 1, cs)

random_from_weighted(keys, d, ra) == WalkKeys(keys, d, ra, 1, 0)

\* A call of runner._select_random_scenario().
SelectRandomScenario ==
    /\ program = "select"
    /\ \E r \in Draws(SumValues(scenario_weights, DictKeys(scenarios))),
          c \in 1..(IF scenarios = <<>> THEN 1 ELSE Len(scenarios)) :
          last_select' =
             [made |-> TRUE, scenarios |-> scenarios,
              weights |-> scenario_weights, r |-> r,
              result |-> select_random_scenario(scenarios, scenario_weights,
                                                r, c)]
    /\ UNCHANGED <<resVars, recVars, program, stressVars, timedVars, webVars,
                   scenarios, scenario_weights, last_weighted, last_run,
                   statVars, cliVars, loginVars>>

\* A call of random_from_weighted(d) on the runner's weight dict.
RandomFromWeighted ==
    /\ program = "select"
    /\ \E ra \in Draws(SumValues(scenario_weights, DictKeys(scenarios))) :
          last_weighted' =
             [made |-> TRUE, scenarios |-> DictKeys(scenarios),
              weights |-> scenario_weights, r |-> ra,
              result |-> random_from_weighted(DictKeys(scenarios),
                                              scenario_weights, ra)]
    /\ UNCHANGED <<resVars, recVars, program, stressVars, timedVars, webVars,
                   scenarios, scenario_weights, last_select, last_run,
                   statVars, cliVars, loginVars>>

\* ScenarioRunner.__init__: no scenario, no weight.
InitSel ==
    /\ InitResult /\ RecIdle /\ StressIdle /\ TimedIdle /\ WebIdle
    /\ StatIdle /\ CliIdle /\ LoginIdle
    /\ program = "select"
    /\ InitRunner

NextSel ==
    \/ \E name \in ScenarioNames, weight \in Weights : AddScenario(name, weight)
    \/ SelectRandomScenario
    \/ RandomFromWeighted

SelSpec == InitSel /\ [][NextSel]_vars

\* ------------------------- runners.py: run_random (RunSpec)
\* run_random's loop from iteration i on: each iteration selects a scenario
\* with its own draw, leaves the loop when the selection is None, calls the
\* scenario and counts it as a success, or as a failure when it raised.
RECURSIVE RunLoop(_, _, _, _, _, _, _)
RunLoop(scens, d, times, raises, draws, i, acc) ==
    IF i > times THEN acc
    ELSE LET scenario == select_random_scenario(scens, d, draws[i].r,
                                                draws[i].c)
         IN  IF scenario = "None" THEN acc
             ELSE RunLoop(scens, d, times, raises, draws, i + 1,
                    [invoked |-> acc.invoked + 1,
                     success |-> acc.success + (IF raises[i] THEN 0 ELSE 1),
                     fail |-> acc.fail + (IF raises[i] THEN 1 ELSE 0)])

\* run_random(count, interval): (0, 0) at once for an empty list; otherwise
\* the loop, then the log line that formats elapsed_time/count, then the
\* pair (success_count, fail_count).
run_random(scens, d, times, raises, draws) ==
    IF scens = <<>>
    THEN [err |-> "", invoked |-> 0, success |-> 0, fail |-> 0]
    ELSE LET acc == RunLoop(scens, d, times, raises, draws, 1,
                            [invoked |-> 0, success |-> 0, fail |-> 0])
             average == Div(1, times)
         IN  [err |-> average.err, invoked |-> acc.invoked,
              success |-> acc.success, fail |-> acc.fail]

\* The iterations among 1..times whose scenario raises.
Raising(times, raises) == Cardinality({i \in 1..times : raises[i]})

\* A call of runner.run_random(count): which iterations' scenarios raise and
\* each iteration's random draws are inputs.
RunRandom ==
    /\ program = "run"
    /\ \E times \in 0..MaxRunCount,
          raises \in [1..MaxRunCount -> BOOLEAN],
          draws \in [1..MaxRunCount ->
                      [r : Draws(SumValues(scenario_weights,
                                           DictKeys(scenarios))),
                       c : 1..(IF scenarios = <<>> THEN 1
                               ELSE Len(scenarios))]] :
          last_run' =
             [made |-> TRUE, count |-> times, entries |-> Len(scenarios),
              raising |-> Raising(times, raises),
              ret |-> run_random(scenarios, scenario_weights, times, raises,
                                 draws)]
    /\ UNCHANGED <<resVars, recVars, program, stressVars, timedVars, webVars,
                   scenarios, scenario_weights, last_select, last_weighted,
                   statVars, cliVars, loginVars>>

\* main.py setup_runner then run_random: a fresh ScenarioRunner.
InitRunRandom ==
    /\ InitResult /\ RecIdle /\ StressIdle /\ TimedIdle /\ WebIdle
    /\ StatIdle /\ CliIdle /\ LoginIdle
    /\ program = "run"
    /\ InitRunner

NextRunRandom ==
    \/ \E name \in ScenarioNames, weight \in Weights : AddScenario(name, weight)
    \/ RunRandom

RunSpec == InitRunRandom /\ [][NextRunRandom]_vars

\* ------------------------- stress.py: summary() read sequentially
\* Histories of add_success calls: n samples in milliseconds, the i-th being
\* 1 + ((i * stride) % modulus).
Strides == {1, 7}
Moduli == {1, 2, MaxSamples + 1}
Sample(n, stride, modulus) == [i \in 1..n |-> 1 + ((i * stride) % modulus)]

\* A StressTestResult after n add_success and f add_failure calls.
InitStat ==
    /\ RecIdle /\ StressIdle /\ TimedIdle /\ WebIdle /\ SelIdle /\ CliIdle
    /\ StatIdle /\ LoginIdle
    /\ program = "stats"
    /\ lock = 0 /\ end_time = FALSE
    /\ \E n \in 0..MaxSamples, stride \in Strides, modulus \in Moduli :
          /\ success_count = n
          /\ response_times = Sample(n, stride, modulus)
    /\ \E f \in 0..MaxFails :
          /\ fail_count = f
          /\ errors = [i \in 1..f |-> CHOOSE e \in ErrorStrings : TRUE]

\* complete()
StatComplete ==
    /\ program = "stats"
    /\ end_time = FALSE
    /\ end_time' = TRUE
    /\ UNCHANGED <<success_count, fail_count, response_times, errors, lock,
                   recVars, program, stressVars, timedVars, webVars, selVars,
                   statVars, cliVars, loginVars>>

\* summary(), called with no record call in flight. total_time() is evaluated
\* for the "total_time" key (t1) and again inside qps() (t2); both give
\* end_time - start_time once complete() was called.
StatSummary ==
    /\ program = "stats"
    /\ \E t1 \in 0..MaxElapsed, t2 \in 0..MaxElapsed :
          /\ t1 <= t2
          /\ end_time => t1 = t2
          /\ total_time' = t2
          /\ summary' =
               [made |-> TRUE,
                total_requests |-> total_count,
                success_count |-> success_count,
                fail_count |-> fail_count,
                error_rate |-> error_rate(fail_count, total_count),
                total_time |-> t1,
                qps |-> qps(total_count, t2),
                avg_response_time |-> avg_response_time(response_times),
                min_response_time |-> min_response_time(response_times),
                max_response_time |-> max_response_time(response_times),
                p90_response_time |->
                    percentile_response_time(response_times, 90),
                p95_response_time |->
                    percentile_response_time(response_times, 95),
                p99_response_time |->
                    percentile_response_time(response_times, 99),
                std_dev_response_time |->
                    std_dev_response_time(response_times),
                errors |-> FirstTen(errors)]
    /\ UNCHANGED <<resVars, recVars, program, stressVars, timedVars, webVars,
                   selVars, api_response, cliVars, loginVars>>

\* ws, after the pool has finished: `if response_times:` sort the list in
\* place and update the statistics of test_results["api_response"]; the same
\* sample stands for the API response times collected by the run.
ApiResponseStats ==
    /\ program = "stats"
    /\ api_response' =
          IF response_times = <<>> THEN api_response
          ELSE LET times == sorted(response_times)
               IN  [updated |-> TRUE,
                    min_time |-> MinOf(times),
                    max_time |-> MaxOf(times),
                    avg_time |-> Div(SumSeq(times), Len(times)),
                    sum_time |-> Num(SumSeq(times)),
                    p90_time |-> Item(times, PercentileIndex(Len(times), 90)),
                    p95_time |-> Item(times, PercentileIndex(Len(times), 95)),
                    p99_time |-> Item(times, PercentileIndex(Len(times), 99))]
    /\ UNCHANGED <<resVars, recVars, program, stressVars, timedVars, webVars,
                   selVars, total_time, summary, cliVars, loginVars>>

NextStat ==
    \/ StatComplete
    \/ StatSummary
    \/ ApiResponseStats

StatSpec == InitStat /\ [][NextStat]_vars

\* ------------------------------------------------------- src/main.py: main
\* What the command line asks for: --test-connection, --config, --scenario,
\* --random, or nothing (all scenarios).
CliModes == {"test_connection", "config", "scenario", "random", "default"}

\* main(): --test-connection returns 0 or 1 by check_config(); --config
\* returns 0; otherwise the runner is set up.
CliArgs ==
    /\ cpc = "args"
    /\ \E mode \in CliModes, ok \in BOOLEAN :
          IF mode = "test_connection"
             THEN cpc' = "exited" /\ exit_status' = IF ok THEN 0 ELSE 1
          ELSE IF mode = "config"
             THEN cpc' = "exited" /\ exit_status' = 0
          ELSE cpc' = "setup_runner" /\ UNCHANGED exit_status
    /\ UNCHANGED <<resVars, recVars, program, argVars, mpc, login_state, auth_calls,
                   threads, join_idx, caught, interrupted, er_total, queueVars,
                   workerVars, histVars, timedVars, webVars, selVars,
                   statVars, loginVars>>

\* setup_runner(): `if not query.login(): return None, None`, and main():
\* `if not query: return 1`.
CliSetupRunner ==
    /\ cpc = "setup_runner"
    /\ \E ok \in BOOLEAN :
          IF ok THEN /\ login_state' = "ok"
                     /\ cpc' = "run"
                     /\ UNCHANGED exit_status
                ELSE /\ login_state' = "failed"
                     /\ cpc' = "exited"
                     /\ exit_status' = 1
    /\ UNCHANGED <<resVars, recVars, program, argVars, mpc, threads, join_idx,
                   caught, interrupted, er_total, auth_calls, queueVars,
                   workerVars, histVars, timedVars, webVars, selVars, statVars,
                   loginVars>>

\* main(): run_all, run_specific or run_random, each of which catches the
\* exceptions of its scenarios; then `return 0`.
CliRun ==
    /\ cpc = "run"
    /\ cpc' = "exited"
    /\ exit_status' = 0
    /\ UNCHANGED <<resVars, recVars, program, argVars, mpc, login_state, auth_calls,
                   threads, join_idx, caught, interrupted, er_total, queueVars,
                   workerVars, histVars, timedVars, webVars, selVars,
                   statVars, loginVars>>

InitCli ==
    /\ InitResult /\ RecIdle /\ TimedIdle /\ WebIdle /\ SelIdle /\ StatIdle
    /\ StressIdle /\ LoginIdle
    /\ program = "main"
    /\ cpc = "args"

NextCli ==
    \/ CliArgs
    \/ CliSetupRunner
    \/ CliRun

\* ------------------------------------------- core/queries.py: Query.login
\* What requests.post() does: it raises (connection refused, timeout), or it
\* returns a response with a status code and a body.
StatusCodes == {200, 401, 500}

\* Bodies: not JSON; JSON without "data"; "data": null; "data": {};
\* "data": "ok" (not an object); "data": {"userId": ..., "token": ...}.
Bodies == {"not_json", "no_data", "null_data", "empty_data", "scalar_data",
           "user_data"}

Responses ==
    [kind : {"exception"}, status : {0}, body : {"none"}] \cup
    [kind : {"response"}, status : StatusCodes, body : Bodies]

\* generate_new_cookies(): the cookies of the verify-code answer, or None, in
\* which case login() uses its built-in cookies.
CookieSources == {"new", "default"}

\* r.json() raises on a body that is not JSON.
JsonRaises(body) == body = "not_json"

\* r.json().get("data") is truthy: neither missing, nor null, nor empty.
DataTruthy(body) == body \in {"scalar_data", "user_data"}

\* data.get("userId") raises AttributeError when data is not an object.
DataGetRaises(body) == body = "scalar_data"

\* `if r.status_code == 200 and r.json().get("data")`
AnyStatus_LoginAccepts(response) ==
    ~JsonRaises(response.body) /\ DataTruthy(response.body)

LoginAccepts(response) ==
    /\ response.status = 200
    /\ ~JsonRaises(response.body) /\ DataTruthy(response.body)

\* An exception inside login()'s try: of requests.post, of r.json() (called
\* only for status 200), of data.get. Each is raised before uid is assigned.
LoginRaises(response) ==
    \/ response.kind = "exception"
    \/ /\ response.kind = "response"
       /\ \/ response.status = 200 /\ JsonRaises(response.body)
          \/ LoginAccepts(response) /\ DataGetRaises(response.body)

\* Query.login(): True with uid, token and the session headers set from the
\* payload, or False with the object as it was.
login(q, response, cookies) ==
    IF response.kind = "response" /\ ~LoginRaises(response)
          /\ LoginAccepts(response)
       THEN [result |-> TRUE,
             query |-> [uid |-> "user1", token |-> "token1",
                        Authorization |-> "Bearer token1",
                        Cookie |-> cookies]]
       ELSE [result |-> FALSE, query |-> q]

\* One login() call on the Query.
QueryLogin ==
    /\ program = "login"
    /\ \E response \in Responses, cookies \in CookieSources :
          /\ query' = login(query, response, cookies).query
          /\ last_login' = [made |-> TRUE, before |-> query,
                            response |-> response, cookies |-> cookies,
                            result |-> login(query, response, cookies).result]
    /\ UNCHANGED <<resVars, recVars, program, stressVars, timedVars, webVars,
                   selVars, statVars, cliVars>>

\* A new Query, or one that an earlier login() authenticated.
InitLogin ==
    /\ InitResult /\ RecIdle /\ StressIdle /\ TimedIdle /\ WebIdle
    /\ SelIdle /\ StatIdle /\ CliIdle
    /\ program = "login"
    /\ query \in {NewQuery,
                  [uid |-> "user0", token |-> "token0",
                   Authorization |-> "Bearer token0", Cookie |-> "new"]}
    /\ last_login = NoLogin

NextLogin == QueryLogin

LoginSpec == InitLogin /\ [][NextLogin]_vars

\* ---------------------------------------------------------- specifications
Init == InitStress \/ InitTimed \/ InitWeb \/ InitCli

Next == NextStress \/ NextTimed \/ NextWeb \/ NextCli

Spec == Init /\ [][Next]_vars

\* The scheduler runs every thread that can take a step; a scenario call
\* returns or raises; Ctrl-C is never owed.
Fairness ==
    /\ WF_vars(MainStep)
    /\ \A w \in Workers : WF_vars(WorkerStep(w))

FairSpec == InitStress /\ [][NextStress]_vars /\ Fairness

\* ------------------------------------------------------------------ claims
RECURSIVE SumTo(_, _)
SumTo(f, n) == IF n = 0 THEN 0 ELSE f[n] + SumTo(f, n - 1)

RecAllReturned ==
    \A t \in Recorders : t <= recK => (rpc[t] = "idle" /\ rdone[t] = recM)

\* C1: once the K recorder threads have each returned from their M record
\* calls, total_count() = K*M; and whenever no call is in progress,
\* success_count + fail_count is the number of calls that returned, each with
\* its latency or its error appended: no interleaving loses an update.
C1_NoLostUpdate ==
    /\ RecAllReturned => total_count = recK * recM
    /\ (\A t \in Recorders : rpc[t] = "idle") =>
           /\ total_count = SumTo(rdone, MaxRecorders)
           /\ Len(response_times) = success_count
           /\ Len(errors) = fail_count

C1_Witness ==
    /\ RecAllReturned /\ recK >= 2 /\ recM >= 2
    /\ success_count >= 1 /\ fail_count >= 1

\* C2: a summary() returned while record calls run on other threads is a
\* snapshot: its total_requests is its success_count plus its fail_count, and
\* the latency sample it read has success_count entries.
C2_SummarySnapshot ==
    spc = "returned" =>
        /\ summ.total_requests = summ.success_count + summ.fail_count
        /\ summ.sample_len = summ.success_count

\* run_stress_test returned its result after task_queue.join() returned.
DrainedReturn == end_time /\ ~caught /\ mpc \in {"returned", "rate", "exited"}

\* C3: every queued unit is handed to at most one worker and yields at most
\* one record (exactly one once the drained run has returned), so
\* total_count() never exceeds count and equals count at the drained return;
\* if no scenario raised, all count records are successes.
C3_ExactlyOnce ==
    /\ \A u \in Units : deq[u] <= 1 /\ recs[u] <= deq[u]
    /\ \A u \in Units : u >= count => deq[u] = 0
    /\ total_count = SumTo([i \in 1..MaxCount |-> recs[i - 1]], MaxCount)
    /\ total_count <= count
    /\ DrainedReturn =>
           /\ total_count = count
           /\ \A u \in Units : u < count => deq[u] = 1 /\ recs[u] = 1
           /\ n_raise = 0 => success_count = count /\ fail_count = 0

C3_Witness ==
    /\ DrainedReturn /\ mpc = "returned"
    /\ count >= 3 /\ concurrent_num >= 2
    /\ total_count = count /\ n_raise = 0

\* C4: a raising scenario is recorded as exactly one failure and ends no
\* worker (a worker ends only after the stop event is set); when every
\* scenario call raised, the drained run returns with
\* fail_count = total_count() = count, an error rate of 1.
C4_FailureNeverAborts ==
    /\ fail_count = n_raise /\ success_count = n_ok
    /\ Len(errors) = n_raise
    /\ \A w \in Workers : wpc[w] = "exited" => stop_event
    /\ (DrainedReturn /\ n_ok = 0) =>
           /\ fail_count = count /\ total_count = count
           /\ count > 0 => /\ RateExceeds(fail_count, total_count, 99)
                            /\ ~RateExceeds(fail_count, total_count, 100)

C4_Witness ==
    /\ DrainedReturn /\ mpc = "returned"
    /\ n_ok = 0 /\ count >= 2 /\ fail_count = count

\* C5: once login has succeeded the load run returns (or is interrupted):
\* the wait on task_queue.join() ends for every count and concurrency.
C5_AlwaysReturns ==
    (login_state = "ok" /\ program = "stress") ~>
        (mpc \in {"returned", "rate", "exited"})

\* C6: after a failed login no work is done: the stress run has filled no
\* queue, started no worker and invoked no scenario; the cycle runner's
\* start() has returned with no scenario run, no job registered and
\* running = False.
C6_LoginFailureZeroWork ==
    /\ (program = "stress" /\ login_state = "failed") =>
           /\ mpc = "exited" /\ exit_status = 1
           /\ task_queue = <<>> /\ unfinished_tasks = 0
           /\ threads = 0 /\ \A w \in Workers : wpc[w] = "unstarted"
           /\ n_ok + n_raise = 0 /\ total_count = 0
    /\ (program = "timed" /\ login_state = "failed") =>
           /\ tpc = "returned"
           /\ t_exec = 0 /\ jobs = {} /\ ~running

C6_Witness ==
    /\ program = "timed" /\ login_state = "failed" /\ tpc = "returned"

\* C7: in both load drivers no scenario is dispatched to a worker before
\* login has returned success.
C7_LoginBeforeDispatch ==
    /\ (\E w \in Workers : wpc[w] /= "unstarted") => login_state = "ok"
    /\ (submitted > 0 \/ web_invoked > 0) => login_state = "ok"

AllWorkersExited == \A w \in Workers : w <= threads => wpc[w] = "exited"

\* C8: once the stop event is set every started worker eventually leaves its
\* loop (scenario calls return), and when all have, every unit that was
\* dequeued has been acknowledged by task_done exactly once; no unit is ever
\* acknowledged twice.
C8_WorkersExitAcked ==
    /\ stop_event ~> AllWorkersExited
    /\ [](\A u \in Units : acks[u] <= 1)
    /\ []((stop_event /\ AllWorkersExited) => \A u \in Units : acks[u] = deq[u])

C8_Witness ==
    /\ stop_event /\ caught /\ AllWorkersExited /\ threads >= 2
    /\ task_queue /= <<>>
    /\ deq[0] = 1 /\ acks[0] = 1

\* C9: once run_stress_test has called result.complete() and returned, no
\* worker is still executing a scenario (whose record would come later).
C9_NoWorkAfterComplete ==
    (end_time /\ mpc \in {"returned", "rate", "exited"}) =>
        \A w \in Workers : wpc[w] /= "scenario"

\* C10: a run that received a user interrupt ends with exit status 130.
C10_InterruptExits130 ==
    (program = "stress" /\ interrupted /\ mpc = "exited") => exit_status = 130

\* ---- weighted selection (SelSpec)
\* The weight the walk of a call adds for its entry i.
EntryWeight(call, i) == Get(call.weights, call.scenarios[i], 1)

\* The cumulative weight of a call's entries 1..i.
RECURSIVE CumWeight(_, _)
CumWeight(call, i) ==
    IF i = 0 THEN 0 ELSE EntryWeight(call, i) + CumWeight(call, i - 1)

\* The total weight a call drew against.
TotalWeight(call) == SumValues(call.weights, DictKeys(call.scenarios))

AllPositive(call) ==
    \A i \in 1..Len(call.scenarios) : EntryWeight(call, i) > 0

AllNonPositive(call) ==
    \A i \in 1..Len(call.scenarios) : EntryWeight(call, i) <= 0

ReturnsEntry(call) ==
    \E i \in 1..Len(call.scenarios) : call.result = call.scenarios[i]

\* A call with a draw below the total returned the first entry whose
\* cumulative weight is strictly greater than the draw.
StrictFirst(call) ==
    (call.made /\ call.scenarios # <<>> /\ call.r < TotalWeight(call)) =>
        \E i \in 1..Len(call.scenarios) :
            /\ call.result = call.scenarios[i]
            /\ CumWeight(call, i) > call.r
            /\ \A j \in 1..(i - 1) : CumWeight(call, j) <= call.r

\* C13: both _select_random_scenario and random_from_weighted return the first
\* entry, in insertion order, whose cumulative weight is strictly greater than
\* the draw r in [0, total): a draw on a cumulative boundary selects the entry
\* after the boundary and an entry of weight 0 is never selected.
C13_StrictBoundary == StrictFirst(last_select) /\ StrictFirst(last_weighted)

\* C14: on a non-empty catalog whose weights are all positive, for every draw
\* r in [0, total], the selection returns an entry of the catalog, never None.
C14_SelectsPresentKey ==
    \A call \in {last_select, last_weighted} :
        (call.made /\ call.scenarios # <<>> /\ AllPositive(call)) =>
            (call.result # "None" /\ ReturnsEntry(call))

\* Both implementations were called on a catalog of two positive entries with
\* the draw at the very end of the range, and returned the last entry.
C14_Witness ==
    /\ last_select.made /\ last_weighted.made
    /\ \A call \in {last_select, last_weighted} :
          /\ Len(call.scenarios) = 2
          /\ call.scenarios[1] # call.scenarios[2]
          /\ AllPositive(call)
          /\ call.r = TotalWeight(call)
          /\ call.result = call.scenarios[2]

\* C15: a selection on an empty catalog, or on one whose weights are all
\* <= 0, fails with an EmptyCatalog error and selects nothing.
C15_EmptyCatalogFails ==
    \A call \in {last_select, last_weighted} :
        (call.made /\ (call.scenarios = <<>> \/ AllNonPositive(call))) =>
            call.result = "EmptyCatalog"


\* ---- the statistics of StressTestResult (StatSpec)
CountBelow(times, v) == Cardinality({i \in 1..Len(times) : times[i] < v})

CountUpTo(times, v) == Cardinality({i \in 1..Len(times) : times[i] <= v})

\* idx = floor(n * percent / 100)
IsFloorOf(idx, n, percent) ==
    idx * 100 <= n * percent /\ n * percent < (idx + 1) * 100

\* value is the element that stands at index floor(n * percent / 100),
\* counted from 0, once the n samples are put in ascending order: at most
\* that many samples are smaller and more than that many are not larger.
AtFloorIndex(times, value, percent) ==
    /\ value.err = "" /\ value.root = 1 /\ value.den = 1
    /\ \E idx \in 0..(Len(times) - 1) :
          /\ IsFloorOf(idx, Len(times), percent)
          /\ CountBelow(times, value.num) <= idx
          /\ idx < CountUpTo(times, value.num)

PercentileOK(times, value, percent) ==
    IF times = <<>> THEN value = Num(0)
    ELSE AtFloorIndex(times, value, percent)

\* C16: for p in {0.90, 0.95, 0.99} the percentile of a non-empty sample of
\* length n is the element at index floor(n * p) of the ascending sample, an
\* index within 0..n-1, and the percentile of an empty sample is 0; in
\* summary() and in the dashboard's final statistics alike.
C16_PercentileFloorIndex ==
    /\ summary.made =>
          /\ PercentileOK(response_times, summary.p90_response_time, 90)
          /\ PercentileOK(response_times, summary.p95_response_time, 95)
          /\ PercentileOK(response_times, summary.p99_response_time, 99)
    /\ (program = "stats" /\ (api_response.updated \/ response_times = <<>>)) =>
          /\ PercentileOK(response_times, api_response.p90_time, 90)
          /\ PercentileOK(response_times, api_response.p95_time, 95)
          /\ PercentileOK(response_times, api_response.p99_time, 99)

\* summary() and the dashboard statistics were computed on a full sample
\* given out of order, and the three percentiles are three different values.
C16_Witness ==
    /\ summary.made /\ api_response.updated
    /\ Len(response_times) = MaxSamples
    /\ response_times # sorted(response_times)
    /\ summary.p90_response_time.num < summary.p95_response_time.num
    /\ summary.p95_response_time.num < summary.p99_response_time.num
    /\ api_response.p90_time.num < api_response.p99_time.num

\* C17: for every non-empty sample
\* min_response_time <= p90 <= p95 <= p99 <= max_response_time.
C17_PercentilesMonotone ==
    (summary.made /\ response_times # <<>>) =>
        /\ \A v \in {summary.min_response_time, summary.p90_response_time,
                     summary.p95_response_time, summary.p99_response_time,
                     summary.max_response_time} : v.err = "" /\ v.den = 1
        /\ summary.min_response_time.num <= summary.p90_response_time.num
        /\ summary.p90_response_time.num <= summary.p95_response_time.num
        /\ summary.p95_response_time.num <= summary.p99_response_time.num
        /\ summary.p99_response_time.num <= summary.max_response_time.num

\* summary() of a sample whose minimum, p90, p95 and p99 all differ.
C17_Witness ==
    /\ summary.made
    /\ summary.min_response_time.num < summary.p90_response_time.num
    /\ summary.p90_response_time.num < summary.p95_response_time.num
    /\ summary.p95_response_time.num < summary.p99_response_time.num
    /\ summary.p99_response_time.num = summary.max_response_time.num

NoError(v) == v.err = ""

IsZero(v) == v.err = "" /\ v.num = 0

SummaryStatistics ==
    {summary.error_rate, summary.qps, summary.avg_response_time,
     summary.min_response_time, summary.max_response_time,
     summary.p90_response_time, summary.p95_response_time,
     summary.p99_response_time, summary.std_dev_response_time}

\* C18: summary() raises nothing for any record history; on zero records its
\* counts are 0 and error_rate, qps, average, min, max, the percentiles and
\* the standard deviation are 0; the standard deviation of one sample is 0.
C18_SummaryNeverFails ==
    summary.made =>
        /\ \A v \in SummaryStatistics : NoError(v)
        /\ total_count = 0 =>
              /\ summary.total_requests = 0
              /\ summary.success_count = 0
              /\ summary.fail_count = 0
              /\ \A v \in SummaryStatistics : IsZero(v)
        /\ Len(response_times) = 1 => IsZero(summary.std_dev_response_time)

\* summary() was called on a result with no record, read when no time had
\* elapsed.
C18_Witness ==
    /\ summary.made
    /\ total_count = 0
    /\ total_time = 0
    /\ summary.total_requests = 0


\* ---- the exit status of the stress CLI (Spec)
\* C12: for a stress run that completes, main() returns 1 exactly when
\* fail_count / total_count is strictly greater than the error threshold and
\* 0 otherwise: a rate equal to the threshold passes, and a run with zero
\* records has rate 0 and passes for every threshold >= 0.
C12_ExitByErrorRate ==
    (program = "stress" /\ mpc = "exited" /\ DrainedReturn
        /\ error_threshold >= 0) =>
        /\ exit_status \in {0, 1}
        /\ exit_status = 1 <=>
              (total_count > 0
                  /\ fail_count * 100 > error_threshold * total_count)

\* A completed run whose error rate equals the threshold exactly (one failure
\* in two records against 50%) exited with status 0.
C12_Witness ==
    /\ program = "stress" /\ mpc = "exited" /\ DrainedReturn
    /\ error_threshold = 50
    /\ fail_count = 1 /\ success_count = 1
    /\ exit_status = 0


C19_IndexIsTicksModN ==
    program = "timed" =>
        /\ current_scenario_index \in 0..(NumScenarios - 1)
        /\ current_scenario_index = t_calls % NumScenarios

\* C20: a credential refresh that fails, by its return value or by raising,
\* is not fatal: the runner keeps running (it stops only on an interrupt),
\* every run_next_scenario call has executed its scenario and advanced the
\* index, and last_token_refresh is left unchanged.
C20_RefreshFailureNotFatal ==
    (program = "timed" /\ refresh_failures > 0) =>
        /\ stop_cause \in {"none", "interrupt", "stop"}
        /\ tpc # "crashed"
        /\ t_exec = t_calls
        /\ current_scenario_index = t_calls % NumScenarios


\* ---- the health file of the cycle runner (Spec)
\* C21: after every tick of the cycle runner, also one whose scenario raised,
\* the health file holds that tick's execution time and that tick's scenario
\* (stated for runs in which no write of the file failed).
C21_HealthNamesLastTick ==
    (program = "timed" /\ last_tick.made /\ ~last_tick.health_failed) =>
        /\ health.execution = last_tick.start
        /\ health.scenario = last_tick.scenario
        /\ health.refresh = last_token_refresh

\* A tick whose write of the health file failed.
HealthWriteFails ==
    /\ t_exec' = t_exec + 1
    /\ ~last_tick'.raised /\ ~last_tick'.health_ok

\* C22: a tick whose health write fails executes its scenario once, advances
\* current_scenario_index by exactly one, is not logged as a failed scenario,
\* and leaves the runner running with nothing raised.
C22_HealthFailureNotFatal ==
    [][HealthWriteFails =>
          /\ current_scenario_index' =
                (current_scenario_index + 1) % NumScenarios
          /\ t_calls' = t_calls + 1
          /\ last_tick'.scenario = current_scenario_index
          /\ ~last_tick'.failed
          /\ health' = health
          /\ running' /\ tpc' \in {"schedule", "loop"}
          /\ stop_cause' = "none"]_vars

\* A health write failed at an earlier tick, and the latest tick ran its
\* scenario and wrote the file.
C22_Witness ==
    /\ program = "timed" /\ tpc = "loop" /\ running
    /\ last_tick.health_failed
    /\ ~last_tick.raised /\ last_tick.health_ok
    /\ t_exec >= 2
    /\ health.scenario = last_tick.scenario

\* ---- the two jobs of the cycle runner (Spec)
\* C23: scenario executions of the cycle runner never overlap, the token
\* check never runs inside a scenario execution, and a scheduled execution
\* starts at least one interval after the previous one finished: the ticks
\* that fell due during a long scenario are not made up for.
C23_NoOverlapNoCatchUp ==
    (program = "timed" /\ last_tick.made) =>
        /\ last_tick.start <= last_tick.finish /\ last_tick.finish <= now
        /\ last_tick.prev_finish <= last_tick.start
        /\ ~last_tick.first =>
              last_tick.start >= last_tick.prev_finish + interval
        /\ \/ last_tick.token_at <= last_tick.start
           \/ last_tick.token_at >= last_tick.finish

\* A scenario lasted three intervals, the next execution came one interval
\* after it finished, and another one followed that.
C23_Witness ==
    /\ program = "timed" /\ tpc = "loop" /\ running
    /\ ~last_tick.first
    /\ last_tick.prev_finish - last_tick.prev_start = 3 * interval
    /\ last_tick.start = last_tick.prev_finish + interval
    /\ last_tick.token_at >= 0
    /\ t_exec >= 3

\* ---- the observer of the web run (Spec)
\* C24: once the observer has disconnected from a web run, no exception has
\* left execute_scenario or the ws handler (every pool task is queued, running
\* or finished, the handler is in its code or has returned), the handler
\* returns only when every submitted task has finished, and the
\* message_sender thread is still in its loop.
C24_DisconnectHarmless ==
    (program = "web" /\ ~ws_connected) =>
        /\ sender_alive
        /\ hpc \in {"connect", "submit", "wait", "done"}
        /\ \A i \in WebTasks :
              tstate[i] \in {"none", "queued", "scenario", "store",
                             "progress", "done"}
        /\ hpc = "done" =>
              \A i \in WebTasks : tstate[i] \in {"none", "done"}

\* The observer left while tasks were pending: a task returned at its first
\* send without invoking its scenario, every task finished, the handler
\* returned, and the sender emptied the queue, dropping messages.
C24_Witness ==
    /\ program = "web" /\ ~ws_connected /\ hpc = "done"
    /\ submitted = MaxWebCount /\ web_invoked < submitted
    /\ \A i \in WebTasks : tstate[i] = "done"
    /\ sender_alive /\ message_queue = 0 /\ dropped > 0

\* ---- Query.login (LoginSpec)
\* C25: login() returns True only for a 200 answer with a data payload; for
\* any other answer or an exception of the request it returns False and
\* leaves uid, token and the session's Authorization header as they were.
C25_LoginFailsClean ==
    (program = "login" /\ last_login.made) =>
        /\ last_login.result =>
              /\ last_login.response.kind = "response"
              /\ last_login.response.status = 200
              /\ last_login.response.body = "user_data"
              /\ query.uid = "user1" /\ query.token = "token1"
              /\ query.Authorization = "Bearer token1"
        /\ ~last_login.result =>
              /\ query.uid = last_login.before.uid
              /\ query.token = last_login.before.token
              /\ query.Authorization = last_login.before.Authorization
        /\ (\/ last_login.response.kind = "exception"
            \/ last_login.response.status /= 200
            \/ last_login.response.body \notin {"scalar_data", "user_data"})
              => ~last_login.result

\* A Query that was logged in, whose next login() was answered 401 with a
\* payload: False, and the earlier session is kept.
C25_Witness ==
    /\ program = "login" /\ last_login.made /\ ~last_login.result
    /\ last_login.response.kind = "response"
    /\ last_login.response.status = 401
    /\ last_login.response.body = "user_data"
    /\ last_login.before.uid = "user1"
    /\ query.Authorization = "Bearer token1"

\* ---- cancellation (Spec)
\* Setting the stop event of a load run again, or calling stop() on the runner
\* again, would change nothing in the current state.
SetAndStopIdempotent ==
    /\ stop_event_set(stop_event_set(stop_event)) = stop_event_set(stop_event)
    /\ stop(stop(running)) = stop(running)

\* A stop() call on a runner that was stopped before changes no field of the
\* runner and nothing else.
SecondStopChangesNothing ==
    (stop_calls' > stop_calls /\ stop_calls >= 1) =>
        UNCHANGED <<resVars, recVars, otherVars, program, stressVars, webVars,
                    tpc, running, current_scenario_index, jobs, t_exec,
                    health, now, last_token_refresh, token_refresh_interval,
                    next_run, t_calls, refresh_failures, stop_cause,
                    last_tick>>

\* A worker waiting in task_queue.get on an empty queue can always leave the
\* call, and leaving it takes the worker back to the test of the stop event.
IdleWorkerPolls ==
    \A w \in Workers :
        (program = "stress" /\ wpc[w] = "get" /\ task_queue = <<>>) =>
            ENABLED (WorkerGetEmpty(w) /\ wpc'[w] = "loop")

C27_NoDequeueAfterStop ==
    [][\A w \in Workers :
          (wpc[w] = "get" /\ wpc'[w] = "scenario") => ~stop_event]_vars

\* The scenario invocations in flight.
InFlight == Cardinality({w \in Workers : wpc[w] = "scenario"})

\* The units dequeued so far.
Dequeued == SumTo([i \in 1..MaxCount |-> deq[i - 1]], MaxCount)

\* C28: at most `concurrent_num` scenario invocations are in flight; the
\* threads created are the first `concurrent_num` ones, all of them once the
\* start loop is over; every unit is handed out at most once and is one of the
\* `count` queue entries, and the queue is always what is left of the
\* pre-filled one (nothing is put on it during the run).
C28_BoundedDispatch ==
    program = "stress" =>
        /\ InFlight <= concurrent_num
        /\ threads <= concurrent_num
        /\ \A w \in Workers : (wpc[w] /= "unstarted") <=> (w <= threads)
        /\ mpc \notin {"check_config", "login", "fill", "starting", "exited"}
              => threads = concurrent_num
        /\ \A u \in Units : deq[u] <= 1 /\ (deq[u] = 1 => u < count)
        /\ (login_state = "ok" /\ mpc /= "fill") =>
              /\ Dequeued <= count
              /\ task_queue = SubSeq(FilledQueue(count), Dequeued + 1, count)

\* Two workers each run a scenario while the third unit waits in the queue.
C28_Witness ==
    /\ program = "stress" /\ concurrent_num = 2 /\ count = 3
    /\ InFlight = 2 /\ threads = 2
    /\ task_queue = <<2>>

\* C29: the Query of a load run is authenticated once, by the login() before
\* the queue is filled: from the start of dispatch to the end of the run no
\* login() or refresh_token() call is made on it.
C29_NoReauthDuringRun ==
    program = "stress" =>
        /\ auth_calls <= 1
        /\ auth_calls = 1 <=> login_state \in {"ok", "failed"}
        /\ (mpc \notin {"check_config", "login"} /\ login_state = "ok") =>
              auth_calls = 1

\* A drained run of three scenario invocations, some of which raised.
C29_Witness ==
    /\ program = "stress" /\ DrainedReturn /\ mpc = "returned"
    /\ n_ok + n_raise = 3 /\ n_raise >= 1
    /\ auth_calls = 1 /\ login_state = "ok"

\* ---- the progress reports of a load run (ProgressSpec)
\* C30: a run that drained its queue has logged a progress report for every
\* completion count that is a multiple of ten and for the count equal to
\* the total.
C30_ProgressAtEveryTen ==
    (program = "stress" /\ DrainedReturn /\ mpc = "returned") =>
        \A k \in 1..count : (k % 10 = 0 \/ k = count) => k \in progress

\* ---- the lists and the counters of a StressTestResult (RecSpec)
\* The statistics of n latency samples of 1000 ms each.
StatsOfEqualSamples(n) ==
    [avg |-> IF n = 0 THEN Num(0)
             ELSE [err |-> "", num |-> 1000 * n, den |-> n, root |-> 1],
     min |-> IF n = 0 THEN Num(0) ELSE Num(1000),
     max |-> IF n = 0 THEN Num(0) ELSE Num(1000),
     p90 |-> IF n = 0 THEN Num(0) ELSE Num(1000),
     p95 |-> IF n = 0 THEN Num(0) ELSE Num(1000),
     p99 |-> IF n = 0 THEN Num(0) ELSE Num(1000),
     std_dev |-> IF n <= 1 THEN Num(0)
                 ELSE [err |-> "", num |-> 0, den |-> n * (n - 1), root |-> 2]]

\* C31: whenever no record call holds the lock, response_times has
\* success_count entries and errors has fail_count entries; every entry of
\* response_times is the latency of an add_success call, so the statistics a
\* summary() returns are those of the successes it read, and are all 0 when
\* it read none.
C31_SamplesAreSuccesses ==
    /\ lock = 0 =>
          /\ Len(response_times) = success_count
          /\ Len(errors) = fail_count
    /\ \A i \in 1..Len(response_times) :
          response_times[i] \in {ToMillis(lat) : lat \in Latencies}
    /\ spc = "returned" =>
          /\ summ.sample_len <= success_count
          /\ summ.latency = StatsOfEqualSamples(summ.sample_len)
          /\ summ.sample_len = 0 =>
                \A key \in DOMAIN summ.latency : summ.latency[key] = Num(0)

\* Successes and failures were recorded, and a summary() read after the last
\* of them returned.
C31_Witness ==
    /\ program = "record" /\ RecAllReturned /\ lock = 0
    /\ success_count >= 2 /\ fail_count >= 1
    /\ spc = "returned"
    /\ summ.success_count = success_count /\ summ.fail_count = fail_count
    /\ summ.sample_len = success_count

\* ---- the dashboard's counters and events (Spec)
\* Every execute_scenario call the pool was given has returned.
WebAllFinished ==
    /\ program = "web" /\ hpc \in {"wait", "done"}
    /\ submitted > 0
    /\ \A i \in WebTasks : tstate[i] \in {"none", "done"}

\* C32: once all submitted executions have finished, execution.total equals
\* the ThreadSafeCounter's value (the executions that ran to their end) and
\* execution.success + execution.failure equals execution.total.
C32_WebCountersAgree ==
    WebAllFinished =>
        /\ exec_total = counter
        /\ exec_success + exec_failure = exec_total

\* ---- the events of a dashboard run (Spec)
\* C33: the progress events of a run are put on the message queue with
\* strictly increasing `current` values, and when the "complete" event is
\* put the latest progress event carries the number of executions run.
C33_ProgressIncreases ==
    program = "web" =>
        /\ \A k \in 1..(Len(progress_events) - 1) :
              progress_events[k] < progress_events[k + 1]
        /\ (completes > 0 /\ progress_events /= <<>>) =>
              progress_events[Len(progress_events)] = counter

\* The handler went through its run to the end: the pool was created and
\* every submitted execution waited for.
RunEnded == program = "web" /\ hpc = "done" /\ web_conc > 0

\* The "complete" event, when put, is the latest message put.
CompleteIsLast == completes > 0 => complete_at = enqueued

\* The sender gives the observer a message put later than every message it
\* gave before.
DeliversInOrder == delivered' /= delivered => delivered' > delivered

\* C34 as stated: a run that ended has put exactly one "complete" event,
\* after every event of its executions, and the sender delivers the messages
\* in the order they were put.
C34_ExactlyOneComplete ==
    /\ [](RunEnded => completes = 1)
    /\ [](program = "web" => CompleteIsLast)
    /\ [][DeliversInOrder]_vars

\* C34, amended: a run puts at most one "complete" event: exactly one when
\* the observer is still connected as the handler sends it, none once the
\* observer has disconnected; it is put after every event of the run's
\* executions, and the sender delivers the messages in the order they were
\* put.
C34_CompleteLastInOrder ==
    /\ [](program = "web" =>
            /\ completes <= 1
            /\ (RunEnded /\ ws_connected) => completes = 1
            /\ completes = 1 => RunEnded
            /\ CompleteIsLast
            /\ delivered <= enqueued - message_queue)
    /\ [][DeliversInOrder]_vars
    /\ [][(RunEnded' /\ ~RunEnded /\ ~ws_connected) => completes' = 0]_vars

\* Two executions ran, the run ended, and the observer was sent every
\* message up to the "complete" event.
C34_Witness ==
    /\ RunEnded /\ ws_connected
    /\ counter = 2 /\ Len(progress_events) = 2
    /\ completes = 1 /\ message_queue = 0
    /\ delivered = complete_at

\* ---- two dashboard runs at once (TwoRunSpec)
\* The executions of this run whose outcome was counted.
OwnOutcomes == web_invoked - Cardinality({i \in WebTasks : tstate[i] = "scenario"})

\* C35: while a run is in progress test_results counts its own executions,
\* whatever a second connection does, and the counts its "complete" event
\* carries are those of its own executions.
C35_RunsDoNotInterfere ==
    program = "web" =>
        /\ hpc \in {"submit", "wait"} =>
              exec_success + exec_failure = OwnOutcomes
        /\ completes = 1 =>
              complete_counts.success + complete_counts.failure = web_invoked

\* ---- registering a scenario more than once (SelSpec)
\* C36: the total weight a _select_random_scenario call draws against is the
\* sum of the weights its walk over self.scenarios accumulates, and every
\* entry of positive weight is returned for some draw.
C36_TotalIsWalkSum ==
    (last_select.made /\ last_select.scenarios # <<>>) =>
        /\ TotalWeight(last_select) =
              CumWeight(last_select, Len(last_select.scenarios))
        /\ \A i \in 1..Len(last_select.scenarios) :
              EntryWeight(last_select, i) > 0 =>
                 \E r \in Draws(TotalWeight(last_select)) :
                    select_random_scenario(last_select.scenarios,
                                           last_select.weights, r, 1)
                       = last_select.scenarios[i]

\* C37: run_random(count) with count >= 0 on a non-empty scenario list
\* returns (success, fail) with success + fail = count and raises nothing,
\* every selected scenario is invoked, one that raises adds one to fail and
\* does not end the loop; on an empty list it returns (0, 0) and invokes
\* nothing.
C37_RunRandomCounts ==
    (program = "run" /\ last_run.made) =>
        /\ last_run.ret.err = ""
        /\ IF last_run.entries = 0
           THEN last_run.ret.invoked = 0 /\ last_run.ret.success = 0
                /\ last_run.ret.fail = 0
           ELSE /\ last_run.ret.success + last_run.ret.fail = last_run.count
                /\ last_run.ret.invoked = last_run.count
                /\ last_run.ret.fail = last_run.raising

=============================================================================
